---- MODULE Spec2Model ----
(***************************************************************************)
(* Authentication and session core of the Aegis backend                    *)
(* (src/src/auth/auth.service.ts, first AuthService class, lines 22-399,   *)
(* with the RefreshToken and User entities and the JWT strategies).        *)
(*                                                                         *)
(* Every request handler is an async function.  A handler is modelled as   *)
(* a sequence of steps, one per database operation: a step performs the    *)
(* database operation and then runs the synchronous continuation up to     *)
(* the next database operation (the reads of the clock made by             *)
(* jwtService.sign and new Date() belong to that continuation).  Steps of  *)
(* different requests interleave freely, as the event loop allows.         *)
(*                                                                         *)
(* The file store (src/unnamed/part_002, FilesService, with                *)
(* src/src/files/utils/server-encryption.utils.ts) is modelled next to it: *)
(* one step per call of uploadFile, downloadFile and deleteFile.           *)
(***************************************************************************)
EXTENDS Integers, Sequences, FiniteSets, TLC

VARIABLES
    now,        \* wall clock, in seconds
    ticks,      \* number of clock advances made so far
    users,      \* table users: sequence of rows, the id of a row is its index
    rows,       \* table refresh_tokens: set of rows
    rowSeq,     \* number of refresh_tokens rows inserted so far (row ids)
    issued,     \* tokens that were returned to a client
    slots,      \* the requests in flight, one slot per client
    concurrent, \* history: outcome of each client's last overlapping refreshTokens
    rotated,    \* history: refresh tokens for which a refreshTokens call succeeded
    failed2fa,  \* history: temp tokens for which validate2FALogin refused a code
    loggedOut,  \* history: refresh tokens for which a logout call has returned
    refreshExpiresIn, \* configuration: jwt.refreshToken.expiresIn, in seconds
    totp,       \* the last call of TwoFactorService.verifyToken made on its own
    serverKey,  \* configuration: SERVER_ENCRYPTION_KEY, a string
    serving,    \* the application has started and serves requests
    files,      \* table file_attachments: set of rows
    disk,       \* uploads/encrypted-files: the bytes of each file, by name
    fileSeq,    \* number of uploadFile calls that named a file so far
    reply,      \* the outcome of the last FilesService call
    codec,      \* history: the calls of encryptFileServerSide and decryptFileServerSide
    uploaded,   \* history: the bytes received by the uploadFile call of each row
    sample      \* a call of decryptFileServerSide made on its own

authVars == <<now, ticks, users, rows, rowSeq, issued, slots, concurrent,
              rotated, failed2fa, loggedOut, refreshExpiresIn, totp>>

fileVars == <<serverKey, serving, files, disk, fileSeq, reply, codec, uploaded,
              sample>>

vars == <<authVars, fileVars>>

----------------------------------------------------------------------------
(* Bounds of the model *)

MaxTicks == 2
MaxRows == 3

(* Program constants, in seconds *)

AccessTtl == 900
RefreshTtl == 604800
TempTtl == 300
SevenDays == 604800
TotpStep == 30
TotpWindow == 2

Procs == {1, 2}
OneClient == {1}
Emails == {"a@x.com"}
RegisterEmails == {"a@x.com", "b@x.com"}
UnknownEmail == "nobody@x.com"
Passwords == {"pw1", "pw2"}
Salts == {"saltA"}
SaltChoices == {"saltA", "saltB"}
Secrets == {"K1", "K2"}

\* The clock advances by one second, then by seven days at a time (which
\* outlives every token and every refresh_tokens row issued before)
Delta(n) == IF n = 1 THEN 1 ELSE SevenDays

----------------------------------------------------------------------------
(* Values *)

NoHash == [alg |-> "", pw |-> ""]

NoUser ==
    [id |-> 0, email |-> "", passwordHash |-> NoHash, authSalt |-> "",
     isActive |-> FALSE, twoFactorSecret |-> "NULL", twoFactorEnabled |-> FALSE]

NoView == [id |-> 0, email |-> "", authSalt |-> "", isActive |-> FALSE,
           twoFactorEnabled |-> FALSE]

NoToken ==
    [secret |-> "", type |-> "", sub |-> 0, userId |-> 0, email |-> "",
     iat |-> 0, exp |-> 0]

BogusToken ==
    [secret |-> "forged", type |-> "", sub |-> 0, userId |-> 0, email |-> "",
     iat |-> 0, exp |-> 0]

NoRow == [id |-> 0, token |-> [sha256 |-> NoToken], userId |-> 0,
          expiresAt |-> 0, isRevoked |-> FALSE]

NoCode == [k |-> "", ctr |-> 0]

NoCheck == [secret |-> "", code |-> NoCode, at |-> 0, accepted |-> FALSE]

----------------------------------------------------------------------------
(* Pure functions *)

\* argon2.hash: one-way, verified only through argon2.verify
hashPassword(password) == [alg |-> "argon2id", pw |-> password]

\* a comparison that never looks at the format of the stored hash
verifyPassword_AnyHash(storedHash, password) == storedHash.pw = password

\* argon2.verify inside try/catch: a malformed stored hash gives false
verifyPassword(storedHash, password) ==
    IF storedHash.alg = "argon2id" THEN storedHash.pw = password ELSE FALSE

\* a refresh_tokens.token column that keeps the token as it was signed
hashToken_Raw(token) == token

\* crypto.createHash('sha256').update(token).digest('hex')
hashToken(token) == [sha256 |-> token]

\* jwtService.sign(payload, {secret, expiresIn}): HS256 over the payload,
\* iat (second precision) and exp; no jti, so equal inputs give equal tokens.
SignAccess(user, t) ==
    [secret |-> "access", type |-> "", sub |-> user.id, userId |-> 0,
     email |-> user.email, iat |-> t, exp |-> t + AccessTtl]

SignRefresh(user, t) ==
    [secret |-> "refresh", type |-> "", sub |-> user.id, userId |-> 0,
     email |-> user.email, iat |-> t, exp |-> t + refreshExpiresIn]

generateTempToken(userId, t) ==
    [secret |-> "access", type |-> "2fa-temp", sub |-> 0, userId |-> userId,
     email |-> "", iat |-> t, exp |-> t + TempTtl]

\* jsonwebtoken verify: the signature was made with this secret (only the
\* server signs) and the token is not expired
JwtVerify(token, secret, t) ==
    /\ token \in issued
    /\ token.secret = secret
    /\ t < token.exp

\* speakeasy TOTP: the code of a secret for a time step
Totp(secret, ctr) == [k |-> secret, ctr |-> ctr]

Step(t) == t \div TotpStep

\* verifyToken with window: 1
verifyToken_WindowOne(secret, code, t) ==
    \E d \in (0 - 1)..1 : code = Totp(secret, Step(t) + d)

\* TwoFactorService.verifyToken: speakeasy.totp.verify with window: 2
verifyToken(secret, code, t) ==
    \E d \in (0 - TotpWindow)..TotpWindow : code = Totp(secret, Step(t) + d)

\* User.toJSON: strips passwordHash, recoveryKeyHash and twoFactorSecret
toJSON(user) ==
    [id |-> user.id, email |-> user.email, authSalt |-> user.authSalt,
     isActive |-> user.isActive, twoFactorEnabled |-> user.twoFactorEnabled]

\* RefreshToken.isValid
isValid(row, t) == ~row.isRevoked /\ t < row.expiresAt

----------------------------------------------------------------------------
(* Repository reads *)

UserIds == 1..Len(users)

\* userRepository.findOne({ where: { email } })
FindUserByEmail(email) ==
    IF \E i \in UserIds : users[i].email = email
    THEN users[CHOOSE i \in UserIds : users[i].email = email]
    ELSE NoUser

\* userRepository.findOne({ where: { id } }) for a defined id
FindUserById(id) == IF id \in UserIds THEN users[id] ELSE NoUser

\* refreshTokenRepository.findOne({ where: { token } })
FindRow(hashed) ==
    IF \E r \in rows : r.token = hashed
    THEN CHOOSE r \in rows : r.token = hashed
    ELSE NoRow

----------------------------------------------------------------------------
(* Server-side file encryption (src/src/files/utils/server-encryption.utils.ts). *)
(* A Buffer is a sequence of bytes, a string a sequence of characters.           *)

KeyHexLength == 64
KeyLength == 32
IvLength == 12
AuthTagLength == 16

HexDigits ==
    <<"0", "1", "2", "3", "4", "5", "6", "7", "8", "9",
      "a", "b", "c", "d", "e", "f">>

UpperDigits == <<"A", "B", "C", "D", "E", "F">>

\* the value of a hexadecimal character of either case, 16 for any other
\* character
HexValue(c) ==
    IF \E n \in DOMAIN HexDigits : HexDigits[n] = c
    THEN (CHOOSE n \in DOMAIN HexDigits : HexDigits[n] = c) - 1
    ELSE IF \E n \in DOMAIN UpperDigits : UpperDigits[n] = c
    THEN (CHOOSE n \in DOMAIN UpperDigits : UpperDigits[n] = c) + 9
    ELSE 16

\* a Buffer.toString('hex') that writes a byte below 16 as one character
toStringHex_Unpadded(bytes) ==
    LET digits(b) == IF b < 16 THEN <<HexDigits[b + 1]>>
                     ELSE <<HexDigits[(b \div 16) + 1], HexDigits[(b % 16) + 1]>>
        f[i \in 0..Len(bytes)] ==
            IF i = 0 THEN <<>> ELSE f[i - 1] \o digits(bytes[i])
    IN  f[Len(bytes)]

\* Buffer.toString('hex'): two lower-case characters for each byte
toStringHex(bytes) ==
    [i \in 1..(2 * Len(bytes)) |->
        LET b == bytes[(i + 1) \div 2]
        IN  HexDigits[(IF i % 2 = 1 THEN b \div 16 ELSE b % 16) + 1]]

\* Buffer.from(str, 'hex'): the pairs of characters are decoded from the left,
\* in either case; decoding stops without an error at the first pair that is
\* not hexadecimal, and a last character without a partner is dropped
BufferFromHex(str) ==
    LET pairs == Len(str) \div 2
        bad == {i \in 1..pairs :
                   HexValue(str[2 * i - 1]) = 16 \/ HexValue(str[2 * i]) = 16}
        n == IF bad = {} THEN pairs
             ELSE (CHOOSE i \in bad : \A j \in bad : i <= j) - 1
    IN  [i \in 1..n |-> 16 * HexValue(str[2 * i - 1]) + HexValue(str[2 * i])]

\* String.split(':'): the fields between the separators
split(str) ==
    LET seps == {i \in 1..Len(str) : str[i] = ":"}
        n == Cardinality(seps)
        at(k) == IF k = 0 THEN 0
                 ELSE IF k = n + 1 THEN Len(str) + 1
                 ELSE CHOOSE i \in seps : Cardinality({j \in seps : j < i}) = k - 1
    IN  [k \in 1..(n + 1) |-> SubSeq(str, at(k - 1) + 1, at(k) - 1)]

\* The model's stand-in for AES-256-GCM.  A checksum of the bytes, weighted by
\* position modulo the prime 257: it changes whenever one byte changes.
Checksum(bytes) ==
    LET f[i \in 0..Len(bytes)] ==
            IF i = 0 THEN 0 ELSE (f[i - 1] + i * bytes[i]) % 257
    IN  f[Len(bytes)]

\* counter mode: byte i of the data is shifted by a pad that depends on the
\* key, the IV and i; the ciphertext is as long as the data
Pad(keyBuffer, iv, i) == (Checksum(keyBuffer) + Checksum(iv) + i) % 256

CipherUpdate(keyBuffer, iv, data) ==
    [i \in 1..Len(data) |-> (data[i] + Pad(keyBuffer, iv, i)) % 256]

DecipherUpdate(keyBuffer, iv, data) ==
    [i \in 1..Len(data) |-> (data[i] + 256 - Pad(keyBuffer, iv, i)) % 256]

\* the authentication tag, 16 bytes: for data of at most 11 bytes it
\* determines the data, and it changes with any one byte of the key or the IV
getAuthTag(keyBuffer, iv, encrypted) ==
    <<Checksum(keyBuffer) \div 256, Checksum(keyBuffer) % 256,
      Checksum(iv) \div 256, Checksum(iv) % 256, Len(encrypted) % 256>>
    \o [i \in 1..(AuthTagLength - 5) |->
           IF i <= Len(encrypted) THEN encrypted[i] ELSE 0]

\* what a function call gives: a value, or an Error with a message
Returned(value) == [threw |-> FALSE, value |-> value, message |-> ""]

Thrown(message) == [threw |-> TRUE, value |-> <<>>, message |-> message]

\* lines 37-74; iv is the outcome of randomBytes(12)
encryptFileServerSide(fileBuffer, key, iv) ==
    IF key = <<>> \/ Len(key) # KeyHexLength
    THEN Thrown("Server-side encryption failed: Invalid server encryption key: must be 64 hex characters (32 bytes)")
    ELSE LET keyBuffer == BufferFromHex(key)
         IN  IF Len(keyBuffer) # KeyLength
             THEN Thrown("Server-side encryption failed: Invalid key length")
             ELSE LET encrypted == CipherUpdate(keyBuffer, iv, fileBuffer)
                      authTag == getAuthTag(keyBuffer, iv, encrypted)
                  IN  Returned(toStringHex(iv) \o <<":">> \o toStringHex(authTag)
                               \o <<":">> \o toStringHex(encrypted))

\* lines 83-137
decryptFileServerSide(encryptedData, key) ==
    IF key = <<>> \/ Len(key) # KeyHexLength
    THEN Thrown("Server-side decryption failed: Invalid server encryption key: must be 64 hex characters (32 bytes)")
    ELSE LET parts == split(encryptedData)
         IN  IF Len(parts) # 3
             THEN Thrown("Server-side decryption failed: Invalid encrypted data format: expected \"iv:authTag:ciphertext\"")
             ELSE LET keyBuffer == BufferFromHex(key)
                      iv == BufferFromHex(parts[1])
                      authTag == BufferFromHex(parts[2])
                      ciphertext == BufferFromHex(parts[3])
                  IN  IF Len(iv) # IvLength
                      THEN Thrown("Server-side decryption failed: Invalid IV length: expected 12 bytes")
                      ELSE IF Len(authTag) # AuthTagLength
                      THEN Thrown("Server-side decryption failed: Invalid auth tag length: expected 16 bytes")
                      ELSE IF Len(keyBuffer) # KeyLength
                      THEN Thrown("Server-side decryption failed: Invalid key length")
                      ELSE IF authTag # getAuthTag(keyBuffer, iv, ciphertext)
                      THEN Thrown("Server-side decryption failed: Unsupported state or unable to authenticate data")
                      ELSE Returned(DecipherUpdate(keyBuffer, iv, ciphertext))

\* lines 145-147
isValidServerKey(key) ==
    /\ key # <<>>
    /\ Len(key) = KeyHexLength
    /\ \A i \in 1..Len(key) : HexValue(key[i]) # 16

\* fs.writeFile(path, string) writes the UTF-8 bytes of the string, and
\* Buffer.toString('utf-8') reads them back; the strings written here are
\* hexadecimal characters and ':', one byte each, and a byte that is none of
\* them reads back as a character that is neither
Utf8Bytes(str) ==
    [i \in 1..Len(str) |->
        LET c == str[i]
        IN  IF c = ":" THEN 58
            ELSE IF HexValue(c) < 10 THEN 48 + HexValue(c)
            ELSE IF \E n \in DOMAIN HexDigits : HexDigits[n] = c
            THEN 87 + HexValue(c)
            ELSE IF \E n \in DOMAIN UpperDigits : UpperDigits[n] = c
            THEN 55 + HexValue(c)
            ELSE 63]

toStringUtf8(bytes) ==
    [i \in 1..Len(bytes) |->
        LET b == bytes[i]
        IN  IF b = 58 THEN ":"
            ELSE IF b \in 48..57 THEN HexDigits[b - 47]
            ELSE IF b \in 97..102 THEN HexDigits[b - 86]
            ELSE IF b \in 65..70 THEN UpperDigits[b - 64]
            ELSE "?"]

\* Inputs: the keys a deployment may be configured with, the outcomes of
\* randomBytes(12), the contents of an uploaded file
KeyA == [i \in 1..KeyHexLength |-> IF i % 2 = 1 THEN "a" ELSE "1"]
KeyB == [i \in 1..KeyHexLength |-> IF i % 2 = 1 THEN "0" ELSE "F"]
NoKey == <<>>
ShortKey == SubSeq(KeyA, 1, KeyLength)
NonHexKey == [i \in 1..KeyHexLength |-> "g"]
ValidKeys == {KeyA, KeyB}
KeyChoices == ValidKeys \cup {NoKey, ShortKey, NonHexKey}

IvChoices ==
    {[i \in 1..IvLength |-> 0], [i \in 1..IvLength |-> 16 * i + 5]}

Payloads == {<<>>, <<0>>, <<72, 105>>}

\* The file store before the application has started
NoReply ==
    [op |-> "none", status |-> "none", message |-> "", id |-> 0, userId |-> 0,
     data |-> <<>>, filename |-> "", isEncrypted |-> FALSE]

NoSample ==
    [fileBuffer |-> <<>>, key |-> NoKey, iv |-> <<>>, encryptedData |-> <<>>,
     edits |-> 0, called |-> FALSE, result |-> Thrown("")]

NoFiles ==
    /\ serverKey = KeyA
    /\ serving = FALSE
    /\ files = {}
    /\ disk = {}
    /\ fileSeq = 0
    /\ reply = NoReply
    /\ codec = {}
    /\ uploaded = {}
    /\ sample = NoSample

----------------------------------------------------------------------------
(* Requests *)

Idle ==
    [pc |-> "idle", op |-> "none",
     \* arguments
     tok |-> NoToken, email |-> "",
     \* locals
     user |-> NoUser, row |-> NoRow, accessToken |-> NoToken,
     refreshToken |-> NoToken, expiresAt |-> 0, changed |-> {},
     \* response
     status |-> "none", msg |-> "", resAccess |-> NoToken,
     resRefresh |-> NoToken, resTemp |-> NoToken, resSalt |-> "",
     resUser |-> NoView,
     \* what held when the request started, and what the request did
     pwOk |-> FALSE, tokOk |-> FALSE, codeOk |-> FALSE, validAtStart |-> FALSE,
     overlap |-> FALSE, afterRotation |-> FALSE, retry |-> FALSE,
     revokedByMe |-> FALSE, oldRowId |-> 0, newRowId |-> 0]

NoOutcome == [tok |-> NoToken, status |-> "none", valid |-> FALSE]

\* The handler throws (or returns without tokens): the response of the request
Finish(s, status, msg) ==
    [s EXCEPT !.pc = "done", !.status = status, !.msg = msg, !.row = NoRow,
              !.accessToken = NoToken, !.refreshToken = NoToken,
              !.expiresAt = 0]

Unauthorized(s, msg) == Finish(s, "Unauthorized", msg)

InFlight(p) == slots[p].pc \notin {"idle", "done"}

\* A response is delivered to its client before anything else happens
Quiet == \A p \in Procs : slots[p].pc # "done"

CanStart(p) == Quiet /\ slots[p].pc = "idle"

At(p, pc) == Quiet /\ slots[p].pc = pc

\* Requests in flight that will still insert a refresh_tokens row
Inserting == {p \in Procs : slots[p].pc \in {"rg_save", "rf_revoke", "gt_insert"}}

CanInsert == rowSeq + Cardinality(Inserting) < MaxRows

\* generateTokens, lines 193-210: sign both tokens, compute expiresAt
Signed(s, user, t) ==
    [s EXCEPT !.pc = "gt_insert", !.user = user,
              !.accessToken = SignAccess(user, t),
              !.refreshToken = SignRefresh(user, t),
              !.expiresAt = t + SevenDays]

\* Tokens a client can present: the ones it was given, or a string of its own
Presentable(secret) == {t \in issued : t.secret = secret} \cup {BogusToken}

\* Codes a client can type: its authenticator's current code for some secret,
\* or a wrong code
Codes == {Totp(k, Step(now)) : k \in Secrets} \cup {NoCode}

----------------------------------------------------------------------------
Init ==
    /\ now = 0
    /\ ticks = 0
    /\ users = <<>>
    /\ rows = {}
    /\ rowSeq = 0
    /\ issued = {}
    /\ slots = [p \in Procs |-> Idle]
    /\ concurrent = [p \in Procs |-> NoOutcome]
    /\ rotated = {}
    /\ failed2fa = {}
    /\ loggedOut = {}
    /\ refreshExpiresIn = RefreshTtl
    /\ totp = NoCheck
    /\ NoFiles

\* The clock advances
Tick ==
    /\ Quiet
    /\ ticks < MaxTicks
    /\ now' = now + Delta(ticks + 1)
    /\ ticks' = ticks + 1
    /\ UNCHANGED <<users, rows, rowSeq, issued, slots, concurrent, rotated,
                   failed2fa>>
    /\ UNCHANGED <<loggedOut, refreshExpiresIn, totp, fileVars>>

\* The response reaches the client, which may then send its next request
Return(p) ==
    /\ slots[p].pc = "done"
    /\ slots' = [slots EXCEPT ![p] = Idle]
    /\ UNCHANGED <<now, ticks, users, rows, rowSeq, issued, concurrent,
                   rotated, failed2fa>>
    /\ UNCHANGED <<loggedOut, refreshExpiresIn, totp, fileVars>>

\* Account management outside this service switches an account off
Deactivate(u) ==
    /\ Quiet
    /\ u \in UserIds
    /\ users[u].isActive
    /\ users' = [users EXCEPT ![u].isActive = FALSE]
    /\ UNCHANGED <<now, ticks, rows, rowSeq, issued, slots, concurrent,
                   rotated, failed2fa>>
    /\ UNCHANGED <<loggedOut, refreshExpiresIn, totp, fileVars>>

\* cleanExpiredTokens: DELETE WHERE expiresAt < now OR isRevoked
cleanExpiredTokens ==
    /\ Quiet
    /\ rows' = {r \in rows : ~(r.expiresAt < now \/ r.isRevoked)}
    /\ rows' # rows
    /\ UNCHANGED <<now, ticks, users, rowSeq, issued, slots, concurrent,
                   rotated, failed2fa>>
    /\ UNCHANGED <<loggedOut, refreshExpiresIn, totp, fileVars>>

----------------------------------------------------------------------------
(* Repository writes *)

\* refreshTokenRepository.save(entity with id): UPDATE of the row, or INSERT
\* when the row is gone; the column token is unique
RowSaveFails(row) == \E r \in rows : r.id # row.id /\ r.token = row.token

RowSaved(row) == {r \in rows : r.id # row.id} \cup {row}

\* userRepository.save(entity with id): the row takes the entity's columns
UserSaved(user) == [users EXCEPT ![user.id] = user]

----------------------------------------------------------------------------
(* register *)

\* register without the lookup of lines 46-51
RegisterFind_NoLookup(p, email, password, salt) ==
    /\ CanStart(p)
    /\ CanInsert
    /\ slots' = [slots EXCEPT ![p] =
          [Idle EXCEPT !.op = "register", !.email = email, !.pc = "rg_save",
             !.user = [NoUser EXCEPT !.email = email,
                          !.passwordHash = hashPassword(password),
                          !.authSalt = salt, !.isActive = TRUE]]]
    /\ UNCHANGED <<now, ticks, users, rows, rowSeq, issued, concurrent,
                   rotated, failed2fa>>
    /\ UNCHANGED <<loggedOut, refreshExpiresIn, totp, fileVars>>

\* lines 42-56: findOne by email, Conflict, hashPassword, generateAuthSalt
RegisterFind(p, email, password, salt) ==
    /\ CanStart(p)
    /\ LET s0 == [Idle EXCEPT !.op = "register", !.email = email]
       IN  IF FindUserByEmail(email) # NoUser
           THEN slots' = [slots EXCEPT ![p] =
                    Finish(s0, "Conflict", "Un utilisateur avec cet email existe déjà")]
           ELSE /\ CanInsert
                /\ slots' = [slots EXCEPT ![p] =
                      [s0 EXCEPT !.pc = "rg_save",
                         !.user = [NoUser EXCEPT !.email = email,
                                      !.passwordHash = hashPassword(password),
                                      !.authSalt = salt, !.isActive = TRUE]]]
    /\ UNCHANGED <<now, ticks, users, rows, rowSeq, issued, concurrent,
                   rotated, failed2fa>>
    /\ UNCHANGED <<loggedOut, refreshExpiresIn, totp, fileVars>>

\* lines 68-71: userRepository.save(user) (INSERT, email is unique), then
\* generateTokens signs
RegisterSave(p) ==
    /\ At(p, "rg_save")
    /\ LET s == slots[p]
           user == [s.user EXCEPT !.id = Len(users) + 1]
       IN  IF FindUserByEmail(s.user.email) # NoUser
           THEN /\ slots' = [slots EXCEPT ![p] =
                       Finish(s, "InternalError", "QueryFailedError: users.email")]
                /\ UNCHANGED users
           ELSE /\ users' = Append(users, user)
                /\ slots' = [slots EXCEPT ![p] = Signed(s, user, now)]
    /\ UNCHANGED <<now, ticks, rows, rowSeq, issued, concurrent, rotated,
                   failed2fa>>
    /\ UNCHANGED <<loggedOut, refreshExpiresIn, totp, fileVars>>

----------------------------------------------------------------------------
(* generateTokens, lines 212-220: INSERT of the refresh_tokens row (token is *)
(* unique), then the handler returns its response                            *)

\* a response whose salt is drawn afresh instead of read from the account
Respond_FreshSalt(s) ==
    [Finish(s, "ok", "") EXCEPT
        !.resAccess = s.accessToken, !.resRefresh = s.refreshToken,
        !.resUser = toJSON(s.user),
        !.resSalt = IF s.op = "refresh" THEN ""
                    ELSE IF s.op = "register" THEN s.user.authSalt
                    ELSE "saltA",
        !.newRowId = rowSeq + 1]

\* lines 73-77, 123-127, 156-159, 377-381: the body of the response
Respond(s) ==
    [Finish(s, "ok", "") EXCEPT
        !.resAccess = s.accessToken, !.resRefresh = s.refreshToken,
        !.resUser = toJSON(s.user),
        !.resSalt = IF s.op = "refresh" THEN "" ELSE s.user.authSalt,
        !.newRowId = rowSeq + 1]

Outcome(s, status) ==
    IF s.op = "refresh" /\ s.overlap
    THEN [tok |-> s.tok, status |-> status, valid |-> s.validAtStart]
    ELSE NoOutcome

GenerateTokensInsert(p) ==
    /\ At(p, "gt_insert")
    /\ LET s == slots[p]
           hashed == hashToken(s.refreshToken)
       IN  IF FindRow(hashed) # NoRow
           THEN /\ slots' = [slots EXCEPT ![p] =
                       Finish(s, "InternalError", "QueryFailedError: refresh_tokens.token")]
                /\ concurrent' = [concurrent EXCEPT ![p] = Outcome(s, "InternalError")]
                /\ UNCHANGED <<rows, rowSeq, issued, rotated>>
           ELSE /\ rows' = rows \cup {[id |-> rowSeq + 1, token |-> hashed,
                                       userId |-> s.user.id,
                                       expiresAt |-> s.expiresAt,
                                       isRevoked |-> FALSE]}
                /\ rowSeq' = rowSeq + 1
                /\ issued' = issued \cup {s.accessToken, s.refreshToken}
                /\ slots' = [slots EXCEPT ![p] = Respond(s)]
                /\ concurrent' = [concurrent EXCEPT ![p] = Outcome(s, "ok")]
                /\ rotated' = IF s.op = "refresh" THEN rotated \cup {s.tok}
                              ELSE rotated
    /\ UNCHANGED <<now, ticks, users, failed2fa>>
    /\ UNCHANGED <<loggedOut, refreshExpiresIn, totp, fileVars>>

----------------------------------------------------------------------------
(* login *)

\* login without the twoFactorEnabled branch of lines 110-118
LoginDecision_Ignore2FA(user, password) ==
    IF user = NoUser THEN "invalid"
    ELSE IF ~user.isActive THEN "disabled"
    ELSE IF ~verifyPassword(user.passwordHash, password) THEN "invalid"
    ELSE "session"

\* login without the isActive check of lines 99-102
LoginDecision_NoActiveCheck(user, password) ==
    IF user = NoUser THEN "invalid"
    ELSE IF ~verifyPassword(user.passwordHash, password) THEN "invalid"
    ELSE IF user.twoFactorEnabled THEN "2fa"
    ELSE "session"

\* login telling an unknown email apart from a wrong password
LoginDecision_RevealsUnknown(user, password) ==
    IF user = NoUser THEN "disabled"
    ELSE IF ~user.isActive THEN "disabled"
    ELSE IF ~verifyPassword(user.passwordHash, password) THEN "invalid"
    ELSE IF user.twoFactorEnabled THEN "2fa"
    ELSE "session"

\* lines 93-118: the checks of login, in the order the code makes them
LoginDecision(user, password) ==
    IF user = NoUser THEN "invalid"
    ELSE IF ~user.isActive THEN "disabled"
    ELSE IF ~verifyPassword(user.passwordHash, password) THEN "invalid"
    ELSE IF user.twoFactorEnabled THEN "2fa"
    ELSE "session"

Login(p, email, password) ==
    /\ CanStart(p)
    /\ LET user == FindUserByEmail(email)
           s0 == [Idle EXCEPT !.op = "login", !.user = user,
                     !.pwOk = verifyPassword(user.passwordHash, password)]
           d == LoginDecision(user, password)
       IN  CASE d = "invalid" ->
                  /\ slots' = [slots EXCEPT ![p] =
                        Unauthorized(s0, "Identifiants invalides")]
                  /\ UNCHANGED issued
             [] d = "disabled" ->
                  /\ slots' = [slots EXCEPT ![p] =
                        Unauthorized(s0, "Votre compte est désactivé")]
                  /\ UNCHANGED issued
             [] d = "2fa" ->
                  /\ slots' = [slots EXCEPT ![p] =
                        [Finish(s0, "ok", "Veuillez fournir votre code 2FA")
                           EXCEPT !.resTemp = generateTempToken(user.id, now)]]
                  /\ issued' = issued \cup {generateTempToken(user.id, now)}
             [] OTHER ->
                  /\ CanInsert
                  /\ slots' = [slots EXCEPT ![p] = Signed(s0, user, now)]
                  /\ UNCHANGED issued
    /\ UNCHANGED <<now, ticks, users, rows, rowSeq, concurrent, rotated,
                   failed2fa>>
    /\ UNCHANGED <<loggedOut, refreshExpiresIn, totp, fileVars>>

----------------------------------------------------------------------------
(* refreshTokens *)

\* refreshTokens with an error of its own for a token that has no row
RefreshFind_RevealsNotFound(p, tok) ==
    /\ CanStart(p)
    /\ LET row == FindRow(hashToken(tok))
           peers == {q \in Procs \ {p} : InFlight(q) /\ slots[q].op = "refresh"
                                          /\ slots[q].tok = tok}
           s0 == [Idle EXCEPT !.op = "refresh", !.tok = tok,
                     !.user = FindUserById(row.userId), !.oldRowId = row.id,
                     !.validAtStart = (row # NoRow /\ isValid(row, now)),
                     !.tokOk = JwtVerify(tok, "refresh", now),
                     !.afterRotation = (tok \in rotated),
                     !.overlap = (peers # {})]
       IN  IF row = NoRow \/ ~isValid(row, now)
           THEN /\ slots' = [q \in Procs |->
                      IF q = p
                      THEN Unauthorized(s0, IF row = NoRow
                                                THEN "Refresh token inconnu"
                                                ELSE "Refresh token invalide ou expiré")
                      ELSE IF q \in peers THEN [slots[q] EXCEPT !.overlap = TRUE]
                      ELSE slots[q]]
                /\ concurrent' = [concurrent EXCEPT ![p] =
                                     Outcome(s0, "Unauthorized")]
           ELSE /\ CanInsert
                /\ slots' = [q \in Procs |->
                      IF q = p THEN [s0 EXCEPT !.pc = "rf_revoke", !.row = row]
                      ELSE IF q \in peers THEN [slots[q] EXCEPT !.overlap = TRUE]
                      ELSE slots[q]]
                /\ concurrent' = [concurrent EXCEPT ![p] = NoOutcome]
    /\ UNCHANGED <<now, ticks, users, rows, rowSeq, issued, rotated, failed2fa>>
    /\ UNCHANGED <<loggedOut, refreshExpiresIn, totp, fileVars>>

\* lines 137-147: hash, findOne with the user relation, isValid
RefreshFind(p, tok) ==
    /\ CanStart(p)
    /\ LET row == FindRow(hashToken(tok))
           peers == {q \in Procs \ {p} : InFlight(q) /\ slots[q].op = "refresh"
                                          /\ slots[q].tok = tok}
           s0 == [Idle EXCEPT !.op = "refresh", !.tok = tok,
                     !.user = FindUserById(row.userId), !.oldRowId = row.id,
                     !.validAtStart = (row # NoRow /\ isValid(row, now)),
                     !.tokOk = JwtVerify(tok, "refresh", now),
                     !.afterRotation = (tok \in rotated),
                     !.overlap = (peers # {})]
       IN  IF row = NoRow \/ ~isValid(row, now)
           THEN /\ slots' = [q \in Procs |->
                      IF q = p
                      THEN Unauthorized(s0, "Refresh token invalide ou expiré")
                      ELSE IF q \in peers THEN [slots[q] EXCEPT !.overlap = TRUE]
                      ELSE slots[q]]
                /\ concurrent' = [concurrent EXCEPT ![p] =
                                     Outcome(s0, "Unauthorized")]
           ELSE /\ CanInsert
                /\ slots' = [q \in Procs |->
                      IF q = p THEN [s0 EXCEPT !.pc = "rf_revoke", !.row = row]
                      ELSE IF q \in peers THEN [slots[q] EXCEPT !.overlap = TRUE]
                      ELSE slots[q]]
                /\ concurrent' = [concurrent EXCEPT ![p] = NoOutcome]
    /\ UNCHANGED <<now, ticks, users, rows, rowSeq, issued, rotated, failed2fa>>
    /\ UNCHANGED <<loggedOut, refreshExpiresIn, totp, fileVars>>

\* lines 150-154: save the revoked row, then generateTokens signs for the
\* user loaded with the row
RefreshRevoke(p) ==
    /\ At(p, "rf_revoke")
    /\ LET s == slots[p]
           row == [s.row EXCEPT !.isRevoked = TRUE]
       IN  IF RowSaveFails(row)
           THEN /\ slots' = [slots EXCEPT ![p] =
                       Finish(s, "InternalError", "QueryFailedError: refresh_tokens.token")]
                /\ concurrent' = [concurrent EXCEPT ![p] = Outcome(s, "InternalError")]
                /\ UNCHANGED rows
           ELSE /\ rows' = RowSaved(row)
                /\ slots' = [slots EXCEPT ![p] =
                       Signed([s EXCEPT !.revokedByMe = TRUE], s.user, now)]
                /\ UNCHANGED concurrent
    /\ UNCHANGED <<now, ticks, users, rowSeq, issued, rotated, failed2fa>>
    /\ UNCHANGED <<loggedOut, refreshExpiresIn, totp, fileVars>>

----------------------------------------------------------------------------
(* logout *)

\* lines 167-173
LogoutFind(p, tok) ==
    /\ CanStart(p)
    /\ LET row == FindRow(hashToken(tok))
           s0 == [Idle EXCEPT !.op = "logout", !.tok = tok, !.oldRowId = row.id]
       IN  /\ slots' = [slots EXCEPT ![p] =
                 IF row = NoRow THEN Finish(s0, "ok", "Déconnexion réussie")
                 ELSE [s0 EXCEPT !.pc = "lo_save", !.row = row]]
           /\ loggedOut' = IF row = NoRow THEN loggedOut \cup {tok} ELSE loggedOut
    /\ UNCHANGED <<now, ticks, users, rows, rowSeq, issued, concurrent,
                   rotated, failed2fa>>
    /\ UNCHANGED <<refreshExpiresIn, totp, fileVars>>

\* lines 174-178
LogoutSave(p) ==
    /\ At(p, "lo_save")
    /\ LET s == slots[p]
           row == [s.row EXCEPT !.isRevoked = TRUE]
       IN  IF RowSaveFails(row)
           THEN /\ slots' = [slots EXCEPT ![p] =
                       Finish(s, "InternalError", "QueryFailedError: refresh_tokens.token")]
                /\ UNCHANGED <<rows, loggedOut>>
           ELSE /\ rows' = RowSaved(row)
                /\ slots' = [slots EXCEPT ![p] =
                       Finish([s EXCEPT !.revokedByMe = TRUE], "ok",
                              "Déconnexion réussie")]
                /\ loggedOut' = loggedOut \cup {s.tok}
    /\ UNCHANGED <<now, ticks, users, rowSeq, issued, concurrent, rotated,
                   failed2fa>>
    /\ UNCHANGED <<refreshExpiresIn, totp, fileVars>>

----------------------------------------------------------------------------
(* two-factor set-up *)

\* `!user.twoFactorSecret`: null and the empty string are both falsy
NoSecret(user) == user.twoFactorSecret \in {"NULL", ""}

\* lines 300-311: findOne by id, generateSecret
Enable2FA(p, uid, secret) ==
    /\ CanStart(p)
    /\ LET user == FindUserById(uid)
           s0 == [Idle EXCEPT !.op = "enable2FA", !.user = user]
       IN  /\ secret # user.twoFactorSecret
           /\ slots' = [slots EXCEPT ![p] =
                 IF user = NoUser THEN Unauthorized(s0, "Utilisateur non trouvé")
                 ELSE [s0 EXCEPT !.pc = "user_save",
                                 !.user.twoFactorSecret = secret]]
    /\ UNCHANGED <<now, ticks, users, rows, rowSeq, issued, concurrent,
                   rotated, failed2fa>>
    /\ UNCHANGED <<loggedOut, refreshExpiresIn, totp, fileVars>>

\* verify2FA without the check of the code of lines 329-336
Verify2FA_NoCodeCheck(p, uid, code) ==
    /\ CanStart(p)
    /\ LET user == FindUserById(uid)
           ok == ~NoSecret(user) /\ verifyToken(user.twoFactorSecret, code, now)
           s0 == [Idle EXCEPT !.op = "verify2FA", !.user = user, !.codeOk = ok]
       IN  slots' = [slots EXCEPT ![p] =
              IF user = NoUser \/ NoSecret(user)
              THEN Unauthorized(s0, "Veuillez d'abord activer le 2FA")
              ELSE [s0 EXCEPT !.pc = "user_save",
                              !.user.twoFactorEnabled = TRUE]]
    /\ UNCHANGED <<now, ticks, users, rows, rowSeq, issued, concurrent,
                   rotated, failed2fa>>
    /\ UNCHANGED <<loggedOut, refreshExpiresIn, totp, fileVars>>

\* lines 324-340: findOne by id, pending secret, verifyToken
Verify2FA(p, uid, code) ==
    /\ CanStart(p)
    /\ LET user == FindUserById(uid)
           ok == ~NoSecret(user) /\ verifyToken(user.twoFactorSecret, code, now)
           s0 == [Idle EXCEPT !.op = "verify2FA", !.user = user, !.codeOk = ok]
       IN  slots' = [slots EXCEPT ![p] =
              IF user = NoUser \/ NoSecret(user)
              THEN Unauthorized(s0, "Veuillez d'abord activer le 2FA")
              ELSE IF ~verifyToken(user.twoFactorSecret, code, now)
              THEN Unauthorized(s0, "Code 2FA invalide")
              ELSE [s0 EXCEPT !.pc = "user_save",
                              !.user.twoFactorEnabled = TRUE]]
    /\ UNCHANGED <<now, ticks, users, rows, rowSeq, issued, concurrent,
                   rotated, failed2fa>>
    /\ UNCHANGED <<loggedOut, refreshExpiresIn, totp, fileVars>>

\* disable2FA without the clearing of the secret of line 394
Disable2FA_KeepsSecret(p, uid) ==
    /\ CanStart(p)
    /\ LET user == FindUserById(uid)
           s0 == [Idle EXCEPT !.op = "disable2FA", !.user = user]
       IN  slots' = [slots EXCEPT ![p] =
              IF user = NoUser THEN Unauthorized(s0, "Utilisateur non trouvé")
              ELSE [s0 EXCEPT !.pc = "user_save",
                              !.user.twoFactorEnabled = FALSE]]
    /\ UNCHANGED <<now, ticks, users, rows, rowSeq, issued, concurrent,
                   rotated, failed2fa>>
    /\ UNCHANGED <<loggedOut, refreshExpiresIn, totp, fileVars>>

\* lines 388-394: findOne by id, clear the flag and the secret
Disable2FA(p, uid) ==
    /\ CanStart(p)
    /\ LET user == FindUserById(uid)
           s0 == [Idle EXCEPT !.op = "disable2FA", !.user = user]
       IN  slots' = [slots EXCEPT ![p] =
              IF user = NoUser THEN Unauthorized(s0, "Utilisateur non trouvé")
              ELSE [s0 EXCEPT !.pc = "user_save",
                              !.user.twoFactorEnabled = FALSE,
                              !.user.twoFactorSecret = ""]]
    /\ UNCHANGED <<now, ticks, users, rows, rowSeq, issued, concurrent,
                   rotated, failed2fa>>
    /\ UNCHANGED <<loggedOut, refreshExpiresIn, totp, fileVars>>

\* lines 312, 341, 395: userRepository.save(user), then the handler returns
UserSave(p) ==
    /\ At(p, "user_save")
    /\ users' = UserSaved(slots[p].user)
    /\ slots' = [slots EXCEPT ![p] = Finish(slots[p], "ok", "")]
    /\ UNCHANGED <<now, ticks, rows, rowSeq, issued, concurrent, rotated,
                   failed2fa>>
    /\ UNCHANGED <<loggedOut, refreshExpiresIn, totp, fileVars>>

\* userRepository.save(user) as TypeORM runs it when other requests are at
\* work: it first selects the row of user.id and keeps the columns in which
\* the entity differs from it,
UserSaveLoad(p) ==
    /\ At(p, "user_save")
    /\ LET entity == slots[p].user
           databaseEntity == users[entity.id]
       IN  slots' = [slots EXCEPT ![p].pc = "user_update",
                                  ![p].changed =
                                      {c \in DOMAIN entity :
                                          entity[c] # databaseEntity[c]}]
    /\ UNCHANGED <<now, ticks, users, rows, rowSeq, issued, concurrent,
                   rotated, failed2fa>>
    /\ UNCHANGED <<loggedOut, refreshExpiresIn, totp, fileVars>>

\* and then updates those columns, and no other, in the row of that id
UserSaveUpdate(p) ==
    /\ At(p, "user_update")
    /\ LET entity == slots[p].user
           databaseEntity == users[entity.id]
       IN  users' = [users EXCEPT ![entity.id] =
                        [c \in DOMAIN databaseEntity |->
                            IF c \in slots[p].changed THEN entity[c]
                            ELSE databaseEntity[c]]]
    /\ slots' = [slots EXCEPT ![p] =
                    [Finish(slots[p], "ok", "") EXCEPT !.changed = {}]]
    /\ UNCHANGED <<now, ticks, rows, rowSeq, issued, concurrent, rotated,
                   failed2fa>>
    /\ UNCHANGED <<loggedOut, refreshExpiresIn, totp, fileVars>>

----------------------------------------------------------------------------
(* validate2FALogin *)

\* lines 277-294: verifyTempToken; the id it returns, 0 when it throws
verifyTempToken(tempToken, t) ==
    IF JwtVerify(tempToken, "access", t) /\ tempToken.type = "2fa-temp"
    THEN tempToken.userId
    ELSE 0

\* lines 356-372: the checks of validate2FALogin, in the order of the code
Validate2FADecision(tempToken, user, code, t) ==
    IF verifyTempToken(tempToken, t) = 0 THEN "Token 2FA expiré ou invalide"
    ELSE IF user = NoUser \/ ~user.twoFactorEnabled \/ NoSecret(user)
    THEN "2FA non configuré"
    ELSE IF ~verifyToken(user.twoFactorSecret, code, t) THEN "Code 2FA invalide"
    ELSE "session"

Validate2FALogin(p, tempToken, code) ==
    /\ CanStart(p)
    /\ LET userId == verifyTempToken(tempToken, now)
           user == FindUserById(userId)
           d == Validate2FADecision(tempToken, user, code, now)
           s0 == [Idle EXCEPT !.op = "login2fa", !.tok = tempToken,
                     !.user = user, !.tokOk = (userId # 0),
                     !.codeOk = (~NoSecret(user) /\
                                 code = Totp(user.twoFactorSecret, Step(now))),
                     !.retry = (tempToken \in failed2fa)]
       IN  IF d = "session"
           THEN /\ CanInsert
                /\ slots' = [slots EXCEPT ![p] = Signed(s0, user, now)]
                /\ UNCHANGED failed2fa
           ELSE /\ slots' = [slots EXCEPT ![p] = Unauthorized(s0, d)]
                /\ failed2fa' = IF d = "Code 2FA invalide"
                                THEN failed2fa \cup {tempToken} ELSE failed2fa
    /\ UNCHANGED <<now, ticks, users, rows, rowSeq, issued, concurrent, rotated>>
    /\ UNCHANGED <<loggedOut, refreshExpiresIn, totp, fileVars>>

----------------------------------------------------------------------------
(* JwtStrategy: the guard of the protected routes *)

\* TypeORM 0.3 drops a where property that is undefined: findOne then returns
\* a row of the table whatever its id
FindUsersWhereId(sub) ==
    IF sub = 0 THEN (IF users = <<>> THEN {NoUser} ELSE {users[i] : i \in UserIds})
    ELSE {FindUserById(sub)}

\* a guard that trusts the payload of a verified token and reads no row
JwtStrategy_NoLookup(p, token, user) ==
    /\ CanStart(p)
    /\ user \in FindUsersWhereId(token.sub)
    /\ LET s0 == [Idle EXCEPT !.op = "guard", !.tok = token]
       IN  slots' = [slots EXCEPT ![p] =
              IF ~JwtVerify(token, "access", now)
              THEN Unauthorized(s0, "Unauthorized")
              ELSE [Finish([s0 EXCEPT !.tokOk = TRUE, !.user = user], "ok", "")
                       EXCEPT !.resUser = toJSON(user)]]
    /\ UNCHANGED <<now, ticks, users, rows, rowSeq, issued, concurrent,
                   rotated, failed2fa>>
    /\ UNCHANGED <<loggedOut, refreshExpiresIn, totp, fileVars>>

\* passport-jwt verifies signature and expiry with jwt.accessToken.secret, then
\* validate(payload) looks the user up by payload.sub
JwtStrategy(p, token, user) ==
    /\ CanStart(p)
    /\ user \in FindUsersWhereId(token.sub)
    /\ LET s0 == [Idle EXCEPT !.op = "guard", !.tok = token]
       IN  slots' = [slots EXCEPT ![p] =
              IF ~JwtVerify(token, "access", now)
              THEN Unauthorized(s0, "Unauthorized")
              ELSE IF user = NoUser \/ ~user.isActive
              THEN Unauthorized([s0 EXCEPT !.tokOk = TRUE],
                                "Utilisateur introuvable ou désactivé")
              ELSE [Finish([s0 EXCEPT !.tokOk = TRUE, !.user = user], "ok", "")
                       EXCEPT !.resUser = toJSON(user)]]
    /\ UNCHANGED <<now, ticks, users, rows, rowSeq, issued, concurrent,
                   rotated, failed2fa>>
    /\ UNCHANGED <<loggedOut, refreshExpiresIn, totp, fileVars>>

\* auth.service.ts lines 252-258: validateUser(userId), called with the sub of
\* a bearer token that has been verified
validateUser(p, token, user) ==
    /\ CanStart(p)
    /\ JwtVerify(token, "access", now)
    /\ user \in FindUsersWhereId(token.sub)
    /\ LET s0 == [Idle EXCEPT !.op = "validateUser", !.tok = token,
                              !.tokOk = TRUE]
       IN  slots' = [slots EXCEPT ![p] =
              IF user = NoUser \/ ~user.isActive
              THEN Unauthorized(s0, "Utilisateur non trouvé ou désactivé")
              ELSE [Finish([s0 EXCEPT !.user = user], "ok", "")
                       EXCEPT !.resUser = toJSON(user)]]
    /\ UNCHANGED <<now, ticks, users, rows, rowSeq, issued, concurrent,
                   rotated, failed2fa>>
    /\ UNCHANGED <<loggedOut, refreshExpiresIn, totp, fileVars>>

\* UsersService.delete (part_018 lines 309-311), between two requests: the
\* row is gone, its id is never given again, and refresh_tokens rows go with
\* it (ON DELETE CASCADE)
DeleteUser(u) ==
    /\ \A p \in Procs : slots[p].pc = "idle"
    /\ u \in UserIds
    /\ users[u] # NoUser
    /\ users' = [users EXCEPT ![u] = NoUser]
    /\ rows' = {r \in rows : r.userId # u}
    /\ UNCHANGED <<now, ticks, rowSeq, issued, slots, concurrent, rotated,
                   failed2fa>>
    /\ UNCHANGED <<loggedOut, refreshExpiresIn, totp, fileVars>>

----------------------------------------------------------------------------
(* The service: what the environment does, and what a client p may send *)

Env ==
    \/ Tick
    \/ \E u \in UserIds : Deactivate(u)
    \/ cleanExpiredTokens

Account(p) ==
    \/ Return(p)
    \/ \E e \in Emails, salt \in Salts : RegisterFind(p, e, "pw1", salt)
    \/ RegisterSave(p)
    \/ GenerateTokensInsert(p)
    \/ \E e \in Emails \cup {UnknownEmail}, pw \in Passwords : Login(p, e, pw)

Session(p) ==
    \/ \E tok \in Presentable("refresh") : RefreshFind(p, tok)
    \/ RefreshRevoke(p)
    \/ \E tok \in Presentable("refresh") : LogoutFind(p, tok)
    \/ LogoutSave(p)

TwoFactor(p) ==
    \/ \E u \in 1..(Len(users) + 1), k \in Secrets : Enable2FA(p, u, k)
    \/ \E u \in 1..(Len(users) + 1), c \in Codes : Verify2FA(p, u, c)
    \/ \E u \in 1..(Len(users) + 1) : Disable2FA(p, u)
    \/ UserSave(p)
    \/ \E tok \in Presentable("access"), c \in Codes :
          Validate2FALogin(p, tok, c)

Guard(p) ==
    \E tok \in Presentable("access"),
       u \in {NoUser} \cup {users[i] : i \in UserIds} : JwtStrategy(p, tok, u)

\* The whole service, two clients
Next == Env \/ \E p \in Procs : Account(p) \/ Session(p) \/ TwoFactor(p) \/ Guard(p)

Spec == Init /\ [][Next]_vars

\* Accounts and sessions, one client
SessionNext == Env \/ \E p \in OneClient : Account(p) \/ Session(p)

SpecSession == Init /\ [][SessionNext]_vars

\* Accounts, two-factor authentication and the guard, one client
TwoFactorNext == Env \/ \E p \in OneClient : Account(p) \/ TwoFactor(p) \/ Guard(p)

SpecTwoFactor == Init /\ [][TwoFactorNext]_vars

\* Registration and rotation, two clients
Rotation(p) ==
    \/ Return(p)
    \/ \E e \in Emails, salt \in Salts : RegisterFind(p, e, "pw1", salt)
    \/ RegisterSave(p)
    \/ GenerateTokensInsert(p)
    \/ \E tok \in Presentable("refresh") : RefreshFind(p, tok)
    \/ RefreshRevoke(p)

RotationNext == Env \/ \E p \in Procs : Rotation(p)

SpecRotation == Init /\ [][RotationNext]_vars

\* Registration, login and logout, two clients
Logout(p) ==
    \/ Return(p)
    \/ \E e \in Emails, salt \in Salts : RegisterFind(p, e, "pw1", salt)
    \/ RegisterSave(p)
    \/ GenerateTokensInsert(p)
    \/ \E e \in Emails : Login(p, e, "pw1")
    \/ \E tok \in Presentable("refresh") : LogoutFind(p, tok)
    \/ LogoutSave(p)

LogoutNext == Env \/ \E p \in Procs : Logout(p)

SpecLogout == Init /\ [][LogoutNext]_vars

\* Registration and rotation, one client, under either setting of
\* JWT_REFRESH_EXPIRES_IN: a day, or the default of seven days
OneDay == SevenDays \div 7

refreshExpiresInChoices == {OneDay, RefreshTtl}

InitExpiry ==
    /\ now = 0
    /\ ticks = 0
    /\ users = <<>>
    /\ rows = {}
    /\ rowSeq = 0
    /\ issued = {}
    /\ slots = [p \in Procs |-> Idle]
    /\ concurrent = [p \in Procs |-> NoOutcome]
    /\ rotated = {}
    /\ failed2fa = {}
    /\ loggedOut = {}
    /\ refreshExpiresIn \in refreshExpiresInChoices
    /\ totp = NoCheck
    /\ NoFiles

\* The clock advances by a day
TickDay ==
    /\ Quiet
    /\ ticks < MaxTicks
    /\ now' = now + OneDay
    /\ ticks' = ticks + 1
    /\ UNCHANGED <<users, rows, rowSeq, issued, slots, concurrent, rotated,
                   failed2fa, loggedOut, refreshExpiresIn, totp, fileVars>>

ExpiryNext == Tick \/ TickDay \/ \E p \in OneClient : Rotation(p)

SpecExpiry == InitExpiry /\ [][ExpiryNext]_vars

\* Registration, login and the guard of the protected routes, one client,
\* while accounts are switched off or deleted
Bearer(p) ==
    \/ Return(p)
    \/ \E e \in Emails, salt \in Salts : RegisterFind(p, e, "pw1", salt)
    \/ RegisterSave(p)
    \/ GenerateTokensInsert(p)
    \/ \E e \in Emails : Login(p, e, "pw1")
    \/ Guard(p)
    \/ \E tok \in Presentable("access"),
          u \in {NoUser} \cup {users[i] : i \in UserIds} : validateUser(p, tok, u)

BearerNext ==
    \/ Env
    \/ \E u \in UserIds : DeleteUser(u)
    \/ \E p \in OneClient : Bearer(p)

SpecBearer == Init /\ [][BearerNext]_vars

\* Login to an account that is already stored, whose passwordHash column
\* holds an Argon2id hash, a hash of another scheme, or an empty string
StoredHashes ==
    {hashPassword("pw1"), [alg |-> "bcrypt", pw |-> "pw1"], NoHash}

Malformed(storedHash) == storedHash.alg # "argon2id"

InitStored ==
    /\ now = 0
    /\ ticks = 0
    /\ \E h \in StoredHashes, enabled \in BOOLEAN :
          users = <<[NoUser EXCEPT !.id = 1, !.email = "a@x.com",
                                   !.passwordHash = h, !.authSalt = "saltA",
                                   !.isActive = TRUE,
                                   !.twoFactorSecret =
                                       IF enabled THEN "K1" ELSE "NULL",
                                   !.twoFactorEnabled = enabled]>>
    /\ rows = {}
    /\ rowSeq = 0
    /\ issued = {}
    /\ slots = [p \in Procs |-> Idle]
    /\ concurrent = [p \in Procs |-> NoOutcome]
    /\ rotated = {}
    /\ failed2fa = {}
    /\ loggedOut = {}
    /\ refreshExpiresIn = RefreshTtl
    /\ totp = NoCheck
    /\ NoFiles

Stored(p) ==
    \/ Return(p)
    \/ \E e \in Emails \cup {UnknownEmail}, pw \in Passwords : Login(p, e, pw)
    \/ GenerateTokensInsert(p)
    \/ Session(p)

StoredNext == Env \/ \E p \in OneClient : Stored(p)

SpecStored == InitStored /\ [][StoredNext]_vars

\* Two clients setting up and switching off 2FA on an account that is stored
Setup(p) ==
    \/ Return(p)
    \/ \E u \in UserIds, k \in Secrets : Enable2FA(p, u, k)
    \/ \E u \in UserIds, c \in Codes : Verify2FA(p, u, c)
    \/ \E u \in UserIds : Disable2FA(p, u)
    \/ UserSaveLoad(p)
    \/ UserSaveUpdate(p)

SetupNext == \E p \in Procs : Setup(p)

SpecSetup == InitStored /\ [][SetupNext]_vars

\* TwoFactorService.verifyToken on its own: any secret, the code of any
\* secret for any of the first time steps, at the start or the end of a step
MaxSteps == 4

StepTimes ==
    {n * TotpStep + o : n \in 0..MaxSteps, o \in {0, TotpStep - 1}}

StepCodes == {Totp(k, n) : k \in Secrets, n \in 0..MaxSteps}

InitTotp ==
    /\ now \in StepTimes
    /\ ticks = 0
    /\ users = <<>>
    /\ rows = {}
    /\ rowSeq = 0
    /\ issued = {}
    /\ slots = [p \in Procs |-> Idle]
    /\ concurrent = [p \in Procs |-> NoOutcome]
    /\ rotated = {}
    /\ failed2fa = {}
    /\ loggedOut = {}
    /\ refreshExpiresIn = RefreshTtl
    /\ totp = NoCheck
    /\ NoFiles

VerifyTokenCall(secret, code) ==
    /\ totp' = [secret |-> secret, code |-> code, at |-> now,
                accepted |-> verifyToken(secret, code, now)]
    /\ UNCHANGED <<now, ticks, users, rows, rowSeq, issued, slots, concurrent,
                   rotated, failed2fa, loggedOut, refreshExpiresIn, fileVars>>

TotpNext == \E k \in Secrets, c \in StepCodes : VerifyTokenCall(k, c)

SpecTotp == InitTotp /\ [][TotpNext]_vars

\* Registration alone, two clients, two addresses
Register(p) ==
    \/ Return(p)
    \/ \E e \in RegisterEmails, salt \in Salts : RegisterFind(p, e, "pw1", salt)
    \/ RegisterSave(p)
    \/ GenerateTokensInsert(p)

RegisterNext == Tick \/ \E p \in Procs : Register(p)

SpecRegister == Init /\ [][RegisterNext]_vars

\* Every operation on an account, one client with the right password and one
\* authenticator, the salt drawn at registration
Salted(p) ==
    \/ Return(p)
    \/ \E e \in Emails, salt \in SaltChoices : RegisterFind(p, e, "pw1", salt)
    \/ RegisterSave(p)
    \/ GenerateTokensInsert(p)
    \/ \E e \in Emails : Login(p, e, "pw1")
    \/ \E tok \in Presentable("refresh") \ {BogusToken} : RefreshFind(p, tok)
    \/ RefreshRevoke(p)
    \/ \E tok \in Presentable("refresh") \ {BogusToken} : LogoutFind(p, tok)
    \/ LogoutSave(p)
    \/ \E u \in UserIds : Enable2FA(p, u, "K1")
    \/ \E u \in UserIds : Verify2FA(p, u, Totp("K1", Step(now)))
    \/ \E u \in UserIds : Disable2FA(p, u)
    \/ UserSave(p)
    \/ \E tok \in Presentable("access") \ {BogusToken} :
          Validate2FALogin(p, tok, Totp("K1", Step(now)))

SaltNext == Tick \/ \E p \in OneClient : Salted(p)

SpecSalt == Init /\ [][SaltNext]_vars

----------------------------------------------------------------------------
(* FilesService (src/unnamed/part_002): uploadFile, downloadFile, deleteFile. *)
(* A call runs from its first line to its last before the next one starts.   *)

MaxFiles == 1

\* the users who call the service; the first of them uploads
Owners == {1, 2}

\* table medical_records, which FilesService only reads
MedicalRecords == {[id |-> 1, userId |-> 1], [id |-> 2, userId |-> 2]}

\* a column that is NULL, a field of the request that is absent
Null == "NULL"

\* what a client may send as isEncrypted: a boolean, a string, a number, nothing
IsEncryptedInputs == {"true", "'true'", "'1'", "false", Null}

OriginalFilenames == {Null, "scan.pdf"}

EncryptedFilenames == {Null, "U2FsdGVk"}

\* Express.Multer.File: size is the number of bytes of buffer
MulterFile(buffer) == [buffer |-> buffer, size |-> Len(buffer)]

\* UploadFileDto; originalSize is what the client declares
UploadDtos(buffer) ==
    [isEncrypted : IsEncryptedInputs, originalFilename : OriginalFilenames,
     encryptedFilename : EncryptedFilenames, mimeType : {"application/pdf"},
     originalSize : {Len(buffer), Len(buffer) + 1}]

FileIds == 1..(fileSeq + 1)

\* a lookup by id alone
FindFile_AnyOwner(fileId, userId) == {f \in files : f.id = fileId}

\* findOne({ where: { id: fileId, userId } }), part_002 lines 231-233, 301-303
FindFile(fileId, userId) == {f \in files : f.id = fileId /\ f.userId = userId}

OnDisk(filepath) == {d \in disk : d.filepath = filepath}

\* part_002 lines 111-123
IsEncrypted(isEncryptedRaw) == isEncryptedRaw \in {"true", "'true'", "'1'", "1"}

\* what may arrive as the isEncrypted field of the multipart form
WireValues == {"true", "'true'", "'1'", "false", "'false'", "'0'", Null}

\* part_004 lines 26-36, the @Transform of UploadFileDto.isEncrypted
Transform(value) ==
    IF value = "'true'" \/ value = "true" THEN "true"
    ELSE IF value = "'false'" \/ value = "false" THEN "false"
    ELSE "false"

\* the UploadFileDto the controller hands to the service for a form whose
\* isEncrypted field is value
TransformedDtos(value, buffer) ==
    [isEncrypted : {Transform(value)}, originalFilename : OriginalFilenames,
     encryptedFilename : EncryptedFilenames, mimeType : {"application/pdf"},
     originalSize : {Len(buffer)}]

\* the requests of a client that names the file as its mode documents
\* (part_004 lines 41-67) and declares the size of what it sends
DocumentedDtos(buffer) ==
    {dto \in UploadDtos(buffer) :
        /\ (dto.originalFilename # Null) <=> ~IsEncrypted(dto.isEncrypted)
        /\ (dto.encryptedFilename # Null) <=> IsEncrypted(dto.isEncrypted)
        /\ dto.originalSize = Len(buffer)}

Replied(op, userId, status, message) ==
    [NoReply EXCEPT !.op = op, !.userId = userId, !.status = status,
                    !.message = message]

\* what a step of a handler gives, and the codec functions it called for a
\* file of that mode
HandlerStep(result, isEncrypted, fns) ==
    [result |-> result,
     calls |-> {[fn |-> fn, isEncrypted |-> isEncrypted] : fn \in fns}]

\* lines 136-163: the bytes to write, or the Error thrown
FileContentToSave(file, isEncrypted, key, iv) ==
    IF isEncrypted THEN HandlerStep(Returned(file.buffer), isEncrypted, {})
    ELSE IF key = NoKey
    THEN HandlerStep(Thrown("SERVER_ENCRYPTION_KEY not configured in environment variables"),
               isEncrypted, {})
    ELSE LET encryptedData == encryptFileServerSide(file.buffer, key, iv)
         IN  HandlerStep(IF encryptedData.threw THEN encryptedData
                   ELSE Returned(Utf8Bytes(encryptedData.value)),
                   isEncrypted, {"encryptFileServerSide"})

\* a downloadFile that decrypts whatever the mode of the row
FileData_AlwaysDecrypts(file, fileContentOnDisk, key) ==
    IF key = NoKey
    THEN HandlerStep(Thrown("SERVER_ENCRYPTION_KEY not configured in environment variables"),
               file.isEncrypted, {})
    ELSE HandlerStep(decryptFileServerSide(toStringUtf8(fileContentOnDisk), key),
               file.isEncrypted, {"decryptFileServerSide"})

\* lines 256-286: the bytes to return, or the Error thrown
FileData(file, fileContentOnDisk, key) ==
    IF file.isEncrypted THEN HandlerStep(Returned(fileContentOnDisk), TRUE, {})
    ELSE IF key = NoKey
    THEN HandlerStep(Thrown("SERVER_ENCRYPTION_KEY not configured in environment variables"),
               file.isEncrypted, {})
    ELSE HandlerStep(decryptFileServerSide(toStringUtf8(fileContentOnDisk), key),
               file.isEncrypted, {"decryptFileServerSide"})

\* main.ts bootstrap: NestFactory.create(AppModule) and app.listen; the
\* ConfigModule of AppModule loads the environment without validating it
Bootstrap ==
    /\ ~serving
    /\ serving' = TRUE
    /\ UNCHANGED <<serverKey, files, disk, fileSeq, reply, codec, uploaded,
                   sample>>
    /\ UNCHANGED authVars

\* lines 64-190; saved tells whether fileAttachmentRepository.save, the last
\* statement, succeeds or throws the error of the database
uploadFile(userId, medicalRecordId, file, uploadDto, iv, saved) ==
    /\ serving
    /\ fileSeq < MaxFiles
    /\ IF ~\E m \in MedicalRecords : m.id = medicalRecordId /\ m.userId = userId
       THEN /\ reply' = Replied("uploadFile", userId, "NotFound",
                                "Dossier médical non trouvé ou accès interdit")
            /\ UNCHANGED <<files, disk, fileSeq, codec, uploaded>>
       ELSE LET isEncrypted == IsEncrypted(uploadDto.isEncrypted)
                filename == fileSeq + 1
                step == FileContentToSave(file, isEncrypted, serverKey, iv)
                fileContentToSave == step.result
                fileAttachment ==
                    [id |-> filename, userId |-> userId,
                     medicalRecordId |-> medicalRecordId,
                     isEncrypted |-> isEncrypted,
                     originalFilename |-> uploadDto.originalFilename,
                     encryptedFilename |-> uploadDto.encryptedFilename,
                     filepath |-> filename, mimeType |-> uploadDto.mimeType,
                     encryptedSize |-> file.size,
                     originalSize |-> uploadDto.originalSize]
            IN  /\ fileSeq' = fileSeq + 1
                /\ codec' = codec \cup step.calls
                /\ IF fileContentToSave.threw
                   THEN /\ reply' = Replied("uploadFile", userId, "Error",
                                            fileContentToSave.message)
                        /\ UNCHANGED <<files, disk, uploaded>>
                   ELSE /\ disk' = disk \cup
                               {[filepath |-> filename,
                                 data |-> fileContentToSave.value]}
                        /\ IF saved
                           THEN /\ files' = files \cup {fileAttachment}
                                /\ uploaded' = uploaded \cup
                                      {[id |-> filename, buffer |-> file.buffer]}
                                /\ reply' =
                                      [Replied("uploadFile", userId, "ok", "")
                                          EXCEPT !.id = filename,
                                                 !.isEncrypted = isEncrypted]
                           ELSE /\ reply' =
                                      Replied("uploadFile", userId, "Error",
                                              "QueryFailedError: file_attachments")
                                /\ UNCHANGED <<files, uploaded>>
    /\ UNCHANGED <<serverKey, serving, sample>>
    /\ UNCHANGED authVars

\* lines 222-294
downloadFile(userId, fileId) ==
    /\ serving
    /\ IF FindFile(fileId, userId) = {}
       THEN /\ reply' = [Replied("downloadFile", userId, "NotFound",
                                 "Fichier non trouvé ou accès interdit")
                            EXCEPT !.id = fileId]
            /\ UNCHANGED codec
       ELSE LET file == CHOOSE f \in FindFile(fileId, userId) : TRUE
            IN  IF OnDisk(file.filepath) = {}
                THEN /\ reply' = Replied("downloadFile", userId, "NotFound",
                                  "Fichier physique introuvable sur le disque")
                     /\ UNCHANGED codec
                ELSE LET fileContentOnDisk ==
                             (CHOOSE d \in OnDisk(file.filepath) : TRUE).data
                         step == FileData(file, fileContentOnDisk, serverKey)
                         fileData == step.result
                         name == IF file.isEncrypted THEN file.encryptedFilename
                                 ELSE file.originalFilename
                         filename ==
                             IF name \notin {Null, ""} THEN name
                             ELSE IF file.isEncrypted THEN "encrypted-file"
                             ELSE "decrypted-file"
                     IN  /\ codec' = codec \cup step.calls
                         /\ reply' =
                              IF fileData.threw
                              THEN [Replied("downloadFile", userId, "Error",
                                            fileData.message)
                                       EXCEPT !.id = fileId]
                              ELSE [Replied("downloadFile", userId, "ok", "")
                                       EXCEPT !.id = fileId,
                                              !.data = fileData.value,
                                              !.filename = filename,
                                              !.isEncrypted = file.isEncrypted]
    /\ UNCHANGED <<serverKey, serving, files, disk, fileSeq, uploaded, sample>>
    /\ UNCHANGED authVars

\* lines 299-323: fs.unlink, whose failure is caught and ignored, then
\* remove(file); unlinked and removed tell whether the two succeed
deleteFile(userId, fileId, unlinked, removed) ==
    /\ serving
    /\ IF FindFile(fileId, userId) = {}
       THEN /\ reply' = [Replied("deleteFile", userId, "NotFound",
                                 "Fichier non trouvé ou accès interdit")
                            EXCEPT !.id = fileId]
            /\ UNCHANGED <<files, disk>>
       ELSE LET file == CHOOSE f \in FindFile(fileId, userId) : TRUE
            IN  /\ disk' = IF unlinked THEN disk \ OnDisk(file.filepath)
                            ELSE disk
                /\ files' = IF removed THEN files \ {file} ELSE files
                /\ reply' = IF removed
                            THEN [Replied("deleteFile", userId, "ok", "")
                                     EXCEPT !.id = fileId]
                            ELSE [Replied("deleteFile", userId, "Error",
                                          "QueryFailedError: file_attachments")
                                     EXCEPT !.id = fileId]
    /\ UNCHANGED <<serverKey, serving, fileSeq, codec, uploaded, sample>>
    /\ UNCHANGED authVars

\* The file service under any configured key
InitFiles ==
    /\ now = 0
    /\ ticks = 0
    /\ users = <<>>
    /\ rows = {}
    /\ rowSeq = 0
    /\ issued = {}
    /\ slots = [p \in Procs |-> Idle]
    /\ concurrent = [p \in Procs |-> NoOutcome]
    /\ rotated = {}
    /\ failed2fa = {}
    /\ loggedOut = {}
    /\ refreshExpiresIn = RefreshTtl
    /\ totp = NoCheck
    /\ serverKey \in KeyChoices
    /\ serving = FALSE
    /\ files = {}
    /\ disk = {}
    /\ fileSeq = 0
    /\ reply = NoReply
    /\ codec = {}
    /\ uploaded = {}
    /\ sample = NoSample

\* what either user may ask about a file, the disk and the database at work
Retrieval ==
    \/ \E u \in Owners, id \in FileIds : downloadFile(u, id)
    \/ \E u \in Owners, id \in FileIds : deleteFile(u, id, TRUE, TRUE)

\* The file service, its client filling the request as documented
FilesNext ==
    \/ Bootstrap
    \/ \E m \in {1, 2}, b \in Payloads, iv \in IvChoices :
          \E dto \in DocumentedDtos(b) : uploadFile(1, m, MulterFile(b), dto, iv, TRUE)
    \/ Retrieval

SpecFiles == InitFiles /\ [][FilesNext]_vars

\* The file service, its client filling the request in any way that the
\* validation of UploadFileDto admits
UploadNext ==
    \/ Bootstrap
    \/ \E m \in {1, 2}, b \in Payloads, iv \in IvChoices :
          \E dto \in UploadDtos(b) : uploadFile(1, m, MulterFile(b), dto, iv, TRUE)
    \/ Retrieval

SpecUpload == InitFiles /\ [][UploadNext]_vars

\* The file service behind the validation of the upload form
FormNext ==
    \/ Bootstrap
    \/ \E m \in {1, 2}, b \in Payloads, iv \in IvChoices, value \in WireValues :
          \E dto \in TransformedDtos(value, b) :
              uploadFile(1, m, MulterFile(b), dto, iv, TRUE)
    \/ Retrieval

SpecForm == InitFiles /\ [][FormNext]_vars

\* The file service asked by two users about each other's records and files;
\* record 3 does not exist
RecordIds == {1, 2, 3}

\* one file content is enough to tell whose request is served
OwnerPayloads == {<<72, 105>>}

OwnerNext ==
    \/ Bootstrap
    \/ \E u \in Owners, m \in RecordIds, b \in OwnerPayloads, iv \in IvChoices :
          \E dto \in DocumentedDtos(b) :
              uploadFile(u, m, MulterFile(b), dto, iv, TRUE)
    \/ Retrieval

SpecOwner == InitFiles /\ [][OwnerNext]_vars

\* The file service with a database and a disk that may fail
StoreNext ==
    \/ Bootstrap
    \/ \E m \in {1, 2}, b \in Payloads, iv \in IvChoices, saved \in BOOLEAN :
          \E dto \in DocumentedDtos(b) :
              uploadFile(1, m, MulterFile(b), dto, iv, saved)
    \/ \E u \in Owners, id \in FileIds : downloadFile(u, id)
    \/ \E u \in Owners, id \in FileIds, unlinked \in BOOLEAN, removed \in BOOLEAN :
          deleteFile(u, id, unlinked, removed)

SpecStore == InitFiles /\ [][StoreNext]_vars

\* decryptFileServerSide on its own: a record written by
\* encryptFileServerSide, as it is or after changes of its characters
MaxEdits == 1

EditCharacters == {"0", "7", "A", "F", "g", ":"}

Samples ==
    {[NoSample EXCEPT !.fileBuffer = b, !.key = k, !.iv = iv,
                      !.encryptedData = encryptFileServerSide(b, k, iv).value] :
        b \in Payloads, k \in ValidKeys, iv \in IvChoices}

InitCodec ==
    /\ now = 0
    /\ ticks = 0
    /\ users = <<>>
    /\ rows = {}
    /\ rowSeq = 0
    /\ issued = {}
    /\ slots = [p \in Procs |-> Idle]
    /\ concurrent = [p \in Procs |-> NoOutcome]
    /\ rotated = {}
    /\ failed2fa = {}
    /\ loggedOut = {}
    /\ refreshExpiresIn = RefreshTtl
    /\ totp = NoCheck
    /\ serverKey = KeyA
    /\ serving = FALSE
    /\ files = {}
    /\ disk = {}
    /\ fileSeq = 0
    /\ reply = NoReply
    /\ codec = {}
    /\ uploaded = {}
    /\ sample \in Samples

Edited(encryptedData) ==
    /\ ~sample.called
    /\ sample.edits < MaxEdits
    /\ encryptedData # sample.encryptedData
    /\ sample' = [sample EXCEPT !.encryptedData = encryptedData,
                                !.edits = sample.edits + 1]
    /\ UNCHANGED <<serverKey, serving, files, disk, fileSeq, reply, codec,
                   uploaded>>
    /\ UNCHANGED authVars

ReplaceCharacter(i, c) == Edited([sample.encryptedData EXCEPT ![i] = c])

AppendCharacter(c) == Edited(Append(sample.encryptedData, c))

DropLastCharacter ==
    Edited(SubSeq(sample.encryptedData, 1, Len(sample.encryptedData) - 1))

DecryptSample ==
    /\ ~sample.called
    /\ sample' = [sample EXCEPT !.called = TRUE,
                     !.result = decryptFileServerSide(sample.encryptedData,
                                                      sample.key)]
    /\ UNCHANGED <<serverKey, serving, files, disk, fileSeq, reply, codec,
                   uploaded>>
    /\ UNCHANGED authVars

CodecNext ==
    \/ \E i \in 1..Len(sample.encryptedData), c \in EditCharacters :
          ReplaceCharacter(i, c)
    \/ \E c \in EditCharacters : AppendCharacter(c)
    \/ DropLastCharacter
    \/ DecryptSample

SpecCodec == InitCodec /\ [][CodecNext]_vars

----------------------------------------------------------------------------
(* Properties of refreshTokens *)

Done(p, op) == slots[p].pc = "done" /\ slots[p].op = op

NoTokens(s) ==
    /\ s.resAccess = NoToken
    /\ s.resRefresh = NoToken
    /\ s.resTemp = NoToken
    /\ s.resSalt = ""
    /\ s.newRowId = 0

FullSession(s) ==
    /\ s.status = "ok"
    /\ s.resAccess = SignAccess(s.user, s.resAccess.iat)
    /\ s.resRefresh = SignRefresh(s.user, s.resRefresh.iat)
    /\ s.resUser = toJSON(s.user)
    /\ \E r \in rows : /\ r.id = s.newRowId
                       /\ r.token = hashToken(s.resRefresh)
                       /\ r.userId = s.user.id
                       /\ ~r.isRevoked

\* C1: of two overlapping refreshTokens(T) calls, T being valid when the
\* first of them started, exactly one succeeds and the other fails with
\* UnauthorizedException.
C1_ExactlyOneConcurrentRefresh ==
    \A p, q \in Procs :
        (/\ p # q
         /\ concurrent[p].tok # NoToken
         /\ concurrent[p].tok = concurrent[q].tok
         /\ concurrent[p].valid \/ concurrent[q].valid)
        => {concurrent[p].status, concurrent[q].status} = {"ok", "Unauthorized"}

\* C2: a refreshTokens(T) call that starts after a refreshTokens(T) call has
\* succeeded fails with UnauthorizedException, returns no tokens and inserts
\* no refresh_tokens row.
C2_RotatedTokenIsRefused ==
    \A p \in Procs :
        (Done(p, "refresh") /\ slots[p].afterRotation)
        => slots[p].status = "Unauthorized" /\ NoTokens(slots[p])

\* C3: rotation is all-or-nothing: when a refreshTokens(T) call has ended,
\* either it succeeded, T's row is revoked and the new unrevoked row of the
\* same account was returned, or it failed and did not revoke T's row.
C3_RotationAllOrNothing ==
    \A p \in Procs :
        Done(p, "refresh")
        => \/ /\ FullSession(slots[p])
              /\ slots[p].revokedByMe
              /\ \A r \in rows : r.id = slots[p].oldRowId => r.isRevoked
           \/ /\ slots[p].status # "ok"
              /\ ~slots[p].revokedByMe
              /\ NoTokens(slots[p])

\* C4: a successful refreshTokens(T) returns a refresh token other than T and
\* stores it in a row other than T's row.
C4_RotationYieldsNewToken ==
    \A p \in Procs :
        (Done(p, "refresh") /\ slots[p].status = "ok")
        => /\ slots[p].resRefresh # slots[p].tok
           /\ slots[p].newRowId # slots[p].oldRowId
           /\ \A r \in rows : r.token = hashToken(slots[p].tok) => r.isRevoked

\* C9: refreshTokens does not succeed for a token whose account was inactive
\* when the call was made.
C9_NoRefreshForInactiveAccount ==
    \A p \in Procs :
        (/\ Done(p, "refresh")
         /\ slots[p].user # NoUser
         /\ ~slots[p].user.isActive)
        => slots[p].status # "ok"

----------------------------------------------------------------------------
(* Properties of login, validate2FALogin and JwtStrategy *)

\* C5: login of an account with twoFactorEnabled, the password being right,
\* never reaches generateTokens; its response carries no access token, no
\* refresh token, no authSalt and no new row, and for an active account it is
\* the pre-session token of the account.
C5_TwoFactorLoginReturnsOnlyTempToken ==
    \A p \in Procs :
        LET s == slots[p]
        IN  (/\ s.op = "login"
             /\ s.user # NoUser
             /\ s.user.twoFactorEnabled
             /\ s.pwOk)
            => /\ s.pc # "gt_insert"
               /\ s.pc = "done"
                  => /\ s.resAccess = NoToken
                     /\ s.resRefresh = NoToken
                     /\ s.resSalt = ""
                     /\ s.resUser = NoView
                     /\ s.newRowId = 0
                     /\ s.user.isActive
                        => /\ s.status = "ok"
                           /\ s.resTemp.type = "2fa-temp"
                           /\ s.resTemp = generateTempToken(s.user.id, s.resTemp.iat)

C5_Witness ==
    \E p \in Procs :
        /\ Done(p, "login")
        /\ slots[p].user # NoUser
        /\ slots[p].user.twoFactorEnabled
        /\ slots[p].user.isActive
        /\ slots[p].pwOk
        /\ slots[p].resTemp # NoToken
        /\ rows # {}

\* C6: validate2FALogin with an unexpired pre-session token of an account
\* with twoFactorEnabled and the current code returns a full session with
\* the authSalt and one new unrevoked refresh_tokens row.
C6_ValidCodeYieldsSession ==
    \A p \in Procs :
        LET s == slots[p]
        IN  (/\ Done(p, "login2fa")
             /\ s.tokOk
             /\ s.user # NoUser
             /\ s.user.twoFactorEnabled
             /\ s.codeOk)
            => /\ FullSession(s)
               /\ s.resSalt = s.user.authSalt

\* C7: validate2FALogin with a wrong code fails with UnauthorizedException
\* and issues nothing, and a later call with the same unexpired pre-session
\* token and the current code succeeds.
C7_WrongCodeThenRetry ==
    \A p \in Procs :
        LET s == slots[p]
        IN  (/\ Done(p, "login2fa")
             /\ s.tokOk
             /\ s.user # NoUser
             /\ s.user.twoFactorEnabled
             /\ ~NoSecret(s.user))
            => /\ s.msg = "Code 2FA invalide"
                  => s.status = "Unauthorized" /\ NoTokens(s)
               /\ (s.retry /\ s.codeOk) => s.status = "ok"

\* C8: JwtStrategy never accepts a pre-session token (type '2fa-temp') as
\* the bearer credential of a protected route.
C8_TempTokenIsNoBearer ==
    \A p \in Procs :
        (Done(p, "guard") /\ slots[p].tok.type = "2fa-temp")
        => slots[p].status # "ok"

\* C10: login of an inactive account ends at once with UnauthorizedException
\* 'Votre compte est désactivé', whatever the password and the 2FA state; it
\* returns no session and no pre-session token and inserts no row.
C10_InactiveLoginIsRefused ==
    \A p \in Procs :
        LET s == slots[p]
        IN  (/\ s.op = "login"
             /\ s.user # NoUser
             /\ ~s.user.isActive)
            => /\ s.pc = "done"
               /\ s.status = "Unauthorized"
               /\ s.msg = "Votre compte est désactivé"
               /\ NoTokens(s)
               /\ s.resUser = NoView

C10_Witness ==
    \E p \in Procs :
        /\ Done(p, "login")
        /\ slots[p].user # NoUser
        /\ ~slots[p].user.isActive
        /\ slots[p].pwOk
        /\ slots[p].user.twoFactorEnabled
        /\ slots[p].status = "Unauthorized"

----------------------------------------------------------------------------
(* Properties of the refused requests *)

\* C11: validate2FALogin never ends with a session for an account that is
\* inactive when the call is made.
C11_No2FASessionForInactiveAccount ==
    \A p \in Procs :
        (/\ Done(p, "login2fa")
         /\ slots[p].user # NoUser
         /\ ~slots[p].user.isActive)
        => slots[p].status # "ok"

FailedLogin(s) ==
    /\ s.pc = "done"
    /\ s.op = "login"
    /\ s.user = NoUser \/ (s.user.isActive /\ ~s.pwOk)

C13_NoRefreshAfterLogout ==
    \A p \in Procs :
        (Done(p, "refresh") /\ slots[p].tok \in loggedOut)
        => slots[p].status = "Unauthorized" /\ NoTokens(slots[p])

\* C14: logout never fails and is idempotent: every logout call returns the
\* acknowledgement 'Déconnexion réussie', whether the token has no row, a
\* revoked row or an unrevoked one; with no row it leaves the table as it
\* was, and otherwise the row it found is revoked when it returns.
C14_LogoutNeverFails ==
    \A p \in Procs :
        Done(p, "logout")
        => /\ slots[p].status = "ok"
           /\ slots[p].msg = "Déconnexion réussie"
           /\ NoTokens(slots[p])
           /\ \A r \in rows : r.id = slots[p].oldRowId => r.isRevoked

\* The row that refreshTokens found is revoked or expired, or there is none
RefusedRow(s) ==
    \/ s.oldRowId = 0
    \/ \E r \in rows : /\ r.id = s.oldRowId
                       /\ r.isRevoked \/ r.expiresAt <= now

\* C15: refreshTokens refuses a token that has no row, a token whose row is
\* revoked and a token whose row is expired with the same
\* UnauthorizedException 'Refresh token invalide ou expiré', revoking and
\* returning nothing.
C15_RefusalsAreAlike ==
    \A p \in Procs :
        (/\ Done(p, "refresh")
         /\ ~slots[p].revokedByMe
         /\ RefusedRow(slots[p]))
        => /\ slots[p].status = "Unauthorized"
           /\ slots[p].msg = "Refresh token invalide ou expiré"
           /\ NoTokens(slots[p])
           /\ slots[p].resUser = NoView

C15_Witness ==
    \E p \in Procs :
        /\ Done(p, "refresh")
        /\ slots[p].status = "Unauthorized"
        /\ ~slots[p].revokedByMe
        /\ \E r \in rows : /\ r.id = slots[p].oldRowId
                           /\ ~r.isRevoked
                           /\ r.expiresAt <= now

\* C16: refreshTokens exchanges a token only if, when the call is made, the
\* row of the token is unrevoked with expiresAt in the future and the signed
\* expiry of the token itself (issue time plus jwt.refreshToken.expiresIn)
\* has not passed.
C16_NoRefreshOfExpiredToken ==
    \A p \in Procs :
        (Done(p, "refresh") /\ slots[p].status = "ok")
        => /\ slots[p].validAtStart
           /\ slots[p].tokOk

----------------------------------------------------------------------------
(* Properties of the two-factor set-up *)

\* C17: verify2FA writes twoFactorEnabled = true only after the supplied code
\* verified against the secret stored for the account; with another code it
\* fails with UnauthorizedException 'Code 2FA invalide' and leaves the row of
\* the account as it was (same secret, twoFactorEnabled as before); and
\* twoFactorEnabled turns true in the table only by that write.
C17_VerifyEnablesOnlyOnValidCode ==
    /\ [](\A p \in Procs :
            LET s == slots[p]
            IN  s.op = "verify2FA"
                => /\ (s.pc = "user_save" \/ s.status = "ok")
                      => /\ s.codeOk
                         /\ ~NoSecret(s.user)
                   /\ (s.pc = "done" /\ s.user # NoUser /\ ~NoSecret(s.user)
                         /\ ~s.codeOk)
                      => /\ s.status = "Unauthorized"
                         /\ s.msg = "Code 2FA invalide"
                         /\ users[s.user.id] = s.user)
    /\ [][\A u \in UserIds :
            (~users[u].twoFactorEnabled /\ users'[u].twoFactorEnabled)
            => \E p \in Procs : /\ slots[p].op = "verify2FA"
                                /\ slots[p].pc = "user_save"
                                /\ slots[p].user.id = u
                                /\ slots[p].codeOk
                                /\ users'[u] = slots[p].user]_vars

C17_Witness ==
    \E p \in Procs :
        /\ Done(p, "verify2FA")
        /\ ~NoSecret(slots[p].user)
        /\ ~slots[p].user.twoFactorEnabled
        /\ ~slots[p].codeOk
        /\ slots[p].status = "Unauthorized"
        /\ users[slots[p].user.id] = slots[p].user

\* C18: when disable2FA has returned, the row of the account has
\* twoFactorEnabled = false and an empty secret; the secret stays empty until
\* an enable2FA call writes a new one; and verify2FA on an account without a
\* secret fails with UnauthorizedException whatever the code, changing
\* nothing.
C18_DisableClearsSecret ==
    /\ [](\A p \in Procs :
            LET s == slots[p]
            IN  /\ (Done(p, "disable2FA") /\ s.status = "ok")
                   => /\ ~users[s.user.id].twoFactorEnabled
                      /\ users[s.user.id].twoFactorSecret = ""
                /\ (s.op = "verify2FA" /\ s.user # NoUser /\ NoSecret(s.user))
                   => /\ s.pc = "done"
                      /\ s.status = "Unauthorized"
                      /\ s.msg = "Veuillez d'abord activer le 2FA"
                      /\ users[s.user.id] = s.user)
    /\ [][\A u \in UserIds :
            (NoSecret(users[u]) /\ ~NoSecret(users'[u]))
            => \E p \in Procs : /\ slots[p].op = "enable2FA"
                                /\ slots[p].pc = "user_save"
                                /\ slots[p].user.id = u]_vars

C18_Witness ==
    \E p \in Procs :
        /\ Done(p, "verify2FA")
        /\ slots[p].user # NoUser
        /\ slots[p].user.twoFactorSecret = ""
        /\ ~slots[p].user.twoFactorEnabled
        /\ slots[p].status = "Unauthorized"

\* The 2FA state of an account, from the columns twoFactorSecret and
\* twoFactorEnabled of its row
TwoFactorState(user) ==
    IF NoSecret(user)
    THEN (IF user.twoFactorEnabled THEN "INVALID" ELSE "DISABLED")
    ELSE (IF user.twoFactorEnabled THEN "ENABLED" ELSE "PENDING")

TwoFactorSteps ==
    {<<"enable2FA", "DISABLED", "PENDING">>,
     <<"verify2FA", "PENDING", "ENABLED">>,
     <<"disable2FA", "ENABLED", "DISABLED">>}

\* C19: every write that enable2FA, verify2FA or disable2FA makes to the row
\* of an account either leaves its 2FA state as it is (and, for an ENABLED
\* account, its secret too) or is one of DISABLED to PENDING by enable2FA,
\* PENDING to ENABLED by verify2FA, ENABLED to DISABLED by disable2FA.
C19_TwoFactorStateMachine ==
    \A p \in Procs :
        LET s == slots[p]
            old == users[s.user.id]
        IN  (s.pc = "user_save" /\ s.user.id \in UserIds)
            => \/ /\ TwoFactorState(s.user) = TwoFactorState(old)
                  /\ TwoFactorState(old) = "ENABLED"
                     => s.user.twoFactorSecret = old.twoFactorSecret
               \/ <<s.op, TwoFactorState(old), TwoFactorState(s.user)>>
                     \in TwoFactorSteps

----------------------------------------------------------------------------
(* Properties of TwoFactorService.verifyToken *)

\* C20, as claimed: verifyToken accepts a code exactly when it is the TOTP
\* of the secret for a time step at distance at most 1 from the current one.
C20_WindowOfOneStep ==
    totp # NoCheck
    => LET d == totp.code.ctr - Step(totp.at)
       IN  totp.accepted <=> (totp.code.k = totp.secret /\ d >= 0 - 1 /\ d <= 1)

\* C20, as the code has it: verifyToken accepts a code exactly when it is the
\* TOTP of the secret for a time step at distance at most 2 from the current
\* one (window: 2), and rejects the code of any step at distance 3 or more.
C20_WindowOfTwoSteps ==
    totp # NoCheck
    => LET d == totp.code.ctr - Step(totp.at)
       IN  totp.accepted <=> (totp.code.k = totp.secret /\ d >= 0 - 2 /\ d <= 2)

C20_Witness ==
    /\ totp # NoCheck
    /\ totp.accepted
    /\ totp.code.ctr - Step(totp.at) = 2

----------------------------------------------------------------------------
(* Properties of register *)

\* C21: a register call whose email belongs to an account when the call looks
\* it up fails with Conflict, writes no account and no refresh_tokens row and
\* returns no tokens; no two accounts ever share an email.
C21_DuplicateEmailIsConflict ==
    /\ [](/\ \A i, j \in UserIds : users[i].email = users[j].email => i = j
          /\ \A p \in Procs :
                Done(p, "register") /\ slots[p].status = "Conflict"
                    => NoTokens(slots[p]) /\ slots[p].resUser = NoView)
    /\ [][\A p \in Procs :
            (/\ slots[p].pc = "idle"
             /\ slots'[p].op = "register"
             /\ \E i \in UserIds : users[i].email = slots'[p].email)
            => /\ slots'[p].pc = "done"
               /\ slots'[p].status = "Conflict"
               /\ users' = users
               /\ rows' = rows
               /\ issued' = issued]_vars

\* a second registration of a taken address was refused while another
\* address was registered as well
C21_Witness ==
    /\ Len(users) = 2
    /\ \E p \in Procs :
          /\ Done(p, "register")
          /\ slots[p].status = "Conflict"
          /\ \E i \in UserIds : users[i].email = slots[p].email

\* C22: authSalt and passwordHash of an account are the ones written by
\* register: no later operation changes them or removes the account, and every
\* successful register, login and validate2FALogin returns the account's
\* authSalt, hence the salt registration returned.
C22_SaltIsFixedAtRegistration ==
    /\ [](\A p \in Procs :
            (/\ slots[p].pc = "done"
             /\ slots[p].op \in {"register", "login", "login2fa"}
             /\ slots[p].resRefresh # NoToken)
            => /\ slots[p].resSalt \in SaltChoices
               /\ slots[p].resSalt = FindUserById(slots[p].user.id).authSalt)
    /\ [][\A i \in UserIds :
            /\ i <= Len(users')
            /\ users'[i].authSalt = users[i].authSalt
            /\ users'[i].passwordHash = users[i].passwordHash]_vars

\* an account registered with the second salt, which has since enabled 2FA,
\* rotated a token, and now completes a 2FA login
C22_Witness ==
    \E p \in Procs :
        /\ Done(p, "login2fa")
        /\ slots[p].status = "ok"
        /\ slots[p].resSalt = "saltB"
        /\ users[slots[p].user.id].twoFactorEnabled
        /\ rotated # {}

----------------------------------------------------------------------------
(* Properties of the responses *)

\* C23: the result of a successful refreshTokens carries the salt nowhere,
\* neither as a field of its own nor inside the user view it returns.
C23_RefreshResultHasNoSalt ==
    \A p \in Procs :
        Done(p, "refresh") /\ slots[p].status = "ok"
            => /\ slots[p].resSalt = ""
               /\ slots[p].resUser.authSalt = ""

\* C24: the token column of every refresh_tokens row is the SHA-256 hash of a
\* refresh token that was returned to a client, and no row keeps a refresh
\* token as it was signed.
C24_RowsKeepOnlyHashes ==
    \A r \in rows :
        /\ \E t \in issued : t.secret = "refresh" /\ r.token = [sha256 |-> t]
        /\ \A t \in issued : r.token # t

\* a rotated and a live row, after a logout re-saved a row
C24_Witness ==
    /\ \E r \in rows : r.isRevoked
    /\ \E r \in rows : ~r.isRevoked
    /\ loggedOut # {}
    /\ \A r \in rows : \E t \in issued : r.token = hashToken(t)

----------------------------------------------------------------------------
(* Properties of the file store *)

\* the call was refused as not found and touched nothing
Refused ==
    /\ reply'.status = "NotFound"
    /\ reply'.data = NoReply.data
    /\ UNCHANGED <<files, disk, fileSeq, codec, uploaded>>

\* a medical record of userId with this id
OwnRecord(userId, medicalRecordId) ==
    \E m \in MedicalRecords : m.id = medicalRecordId /\ m.userId = userId

\* a row with this id that belongs to someone else
ForeignFile(userId, fileId) ==
    \E f \in files : f.id = fileId /\ f.userId # userId

Managed(f) == ~f.isEncrypted

\* the row a downloadFile reply is about, if the caller owns one with that id
Downloaded == IF reply.op = "downloadFile" THEN FindFile(reply.id, reply.userId)
              ELSE {}

BufferOf(f) == {u.buffer : u \in {u \in uploaded : u.id = f.id}}

BlobOf(f) == {d.data : d \in OnDisk(f.filepath)}

\* C25: for every payload b, every valid key k and every IV,
\* decryptFileServerSide(encryptFileServerSide(b, k), k) returns b; and under
\* a valid key a downloadFile by the owner of a row uploaded with
\* isEncrypted = false succeeds and returns the bytes that were uploaded.
C25_ServerManagedRoundTrip ==
    /\ \A b \in Payloads, k \in ValidKeys, iv \in IvChoices :
          LET encryptedData == encryptFileServerSide(b, k, iv)
          IN  /\ ~encryptedData.threw
              /\ decryptFileServerSide(encryptedData.value, k) = Returned(b)
    /\ \A f \in Downloaded :
          Managed(f) /\ isValidServerKey(serverKey)
              => /\ reply.status = "ok"
                 /\ BufferOf(f) = {reply.data}

\* the owner has downloaded a two-byte file that the server encrypted
C25_Witness ==
    /\ isValidServerKey(serverKey)
    /\ reply.status = "ok"
    /\ Len(reply.data) = 2
    /\ \E f \in Downloaded : Managed(f) /\ BlobOf(f) # {reply.data}

\* C26: decryptFileServerSide throws, and returns no bytes, for every record
\* that is not the string encryptFileServerSide produced.
C26_AlteredRecordIsRefused ==
    (/\ sample.called
     /\ sample.encryptedData #
            encryptFileServerSide(sample.fileBuffer, sample.key, sample.iv).value)
    => sample.result.threw /\ sample.result.value = <<>>

\* C27: a row uploaded with isEncrypted = true has on disk the bytes that
\* were uploaded, a downloadFile by its owner returns those bytes, and neither
\* encryptFileServerSide nor decryptFileServerSide is called for such a row.
C27_ClientOpaquePassThrough ==
    /\ \A f \in files : f.isEncrypted => BlobOf(f) = BufferOf(f)
    /\ \A f \in Downloaded :
          f.isEncrypted => /\ reply.status = "ok"
                           /\ reply.isEncrypted
                           /\ BufferOf(f) = {reply.data}
    /\ \A c \in codec : ~c.isEncrypted

\* the owner has downloaded a client-encrypted file from a deployment that
\* has no server key
C27_Witness ==
    /\ serverKey = NoKey
    /\ reply.status = "ok"
    /\ Len(reply.data) = 2
    /\ \E f \in Downloaded : f.isEncrypted /\ BlobOf(f) = {reply.data}

\* C28: the application serves requests only with a valid server key, so no
\* call of FilesService fails because of the key.
C28_InvalidKeyNeverServes ==
    /\ serving => isValidServerKey(serverKey)
    /\ reply.status = "Error" => isValidServerKey(serverKey)

\* C29: encryptedSize of every row is the size of its blob on disk; for a
\* row uploaded with isEncrypted = false, originalSize is the size of the
\* uploaded bytes and encryptedSize is greater.
C29_SizesAreRecorded ==
    \A f \in files :
        /\ BlobOf(f) # {}
        /\ \A data \in BlobOf(f) : f.encryptedSize = Len(data)
        /\ Managed(f) => \A buffer \in BufferOf(f) :
                            /\ f.originalSize = Len(buffer)
                            /\ f.encryptedSize > Len(buffer)

\* C30: every row has exactly one of originalFilename and encryptedFilename,
\* the one of its mode.
C30_OneFilenamePerMode ==
    \A f \in files :
        /\ (f.originalFilename # Null) <=> Managed(f)
        /\ (f.encryptedFilename # Null) <=> f.isEncrypted

\* C31: between calls, a file is on disk exactly if a row names it.
C31_BlobIffRecord ==
    {d.filepath : d \in disk} = {f.filepath : f \in files}

C34_MalformedHashIsInvalidLogin ==
    \A p \in Procs :
        (/\ Done(p, "login")
         /\ slots[p].user # NoUser
         /\ slots[p].user.isActive
         /\ Malformed(slots[p].user.passwordHash))
        => /\ slots[p].status = "Unauthorized"
           /\ slots[p].msg = "Identifiants invalides"
           /\ NoTokens(slots[p])
           /\ slots[p].resUser = NoView

\* the password that the bcrypt hash was made from is refused
C34_Witness ==
    \E p \in Procs :
        /\ Done(p, "login")
        /\ slots[p].user.isActive
        /\ slots[p].user.passwordHash = [alg |-> "bcrypt", pw |-> "pw1"]
        /\ slots[p].status = "Unauthorized"

\* C35: a request that carries the access token of an account that is
\* switched off or deleted when the request is made is refused with
\* UnauthorizedException by JwtStrategy and by validateUser, however long
\* the token is still valid.
C35_GuardRereadsAccount ==
    \A p \in Procs :
        LET s == slots[p]
        IN  (/\ s.pc = "done"
             /\ s.op \in {"guard", "validateUser"}
             /\ s.tok.sub \in UserIds
             /\ users[s.tok.sub] = NoUser \/ ~users[s.tok.sub].isActive)
            => /\ s.status = "Unauthorized"
               /\ s.resUser = NoView

\* an unexpired access token of a deleted account has just been refused
C35_Witness ==
    \E p \in Procs :
        /\ Done(p, "guard")
        /\ slots[p].tokOk
        /\ slots[p].tok.sub \in UserIds
        /\ users[slots[p].tok.sub] = NoUser
        /\ slots[p].status = "Unauthorized"

\* C36: a login with the right password to an active account without 2FA
\* ends with a full session, whatever rows the account already has.
C36_LoginAlwaysYieldsSession ==
    \A p \in Procs :
        (/\ Done(p, "login")
         /\ slots[p].user # NoUser
         /\ slots[p].user.isActive
         /\ slots[p].pwOk
         /\ ~slots[p].user.twoFactorEnabled)
        => FullSession(slots[p])

\* C37: the secret of an account with twoFactorEnabled = true is one that a
\* verify2FA call confirmed: an account is enabled with a secret after a step
\* only if it was enabled with that secret before the step, or the step is
\* the write of a verify2FA call whose code verified against that secret.
C37_EnabledSecretWasConfirmed ==
    [][\A u \in UserIds :
         users'[u].twoFactorEnabled
         => \/ /\ users[u].twoFactorEnabled
               /\ users'[u].twoFactorSecret = users[u].twoFactorSecret
            \/ \E p \in Procs :
                  /\ slots[p].op = "verify2FA"
                  /\ slots[p].pc = "user_save"
                  /\ slots[p].user.id = u
                  /\ slots[p].codeOk
                  /\ users'[u].twoFactorSecret =
                        slots[p].user.twoFactorSecret]_vars

\* C38: whatever the interleaving of enable2FA, verify2FA and disable2FA
\* calls on an account, its row never has twoFactorEnabled = true with an
\* empty or absent secret.
C38_EnabledHasSecret ==
    \A u \in UserIds : users[u].twoFactorEnabled => ~NoSecret(users[u])

\* C39: of the register calls for one email, one creates the account and
\* gets its session, and every other one ends with Conflict and no tokens:
\* a register call that found the email free and lost to another one ends
\* as one that found the email taken.
C39_LoserGetsConflict ==
    \A p \in Procs :
        Done(p, "register")
        => \/ /\ slots[p].status = "ok"
              /\ slots[p].user.email = slots[p].email
              /\ FindUserByEmail(slots[p].email) = slots[p].user
           \/ /\ slots[p].status = "Conflict"
              /\ NoTokens(slots[p])
              /\ slots[p].newRowId = 0

====
